---------------------------- MODULE Spec2Model ----------------------------
(***************************************************************************)
(* KODA codec: canonical binary encoder/decoder (encoder.ts, decoder.ts),  *)
(* native decoder (koda_binary.cc), text lexer/parser (lexer.ts,           *)
(* parser.ts: parse and parseFast), text serializer (stringify) and the    *)
(* pool of decoder workers (decode-async.ts).                              *)
(*                                                                         *)
(* Strings are sequences of Unicode code points (naturals), byte buffers   *)
(* are sequences of 0..255, text is a sequence of code points.  A JS       *)
(* number that is an integer is a TLA+ integer.  A Value is a record       *)
(*   [k, n, s, keys, items]                                                *)
(* with k in {"null","bool","num","str","arr","obj","float"}; an object    *)
(* keeps its keys in insertion order in `keys`, with the values in         *)
(* `items`.  Error messages are kept up to their fixed part: the key, the  *)
(* character or the numbers a message ends with are left out.              *)
(***************************************************************************)
EXTENDS Integers, Sequences, FiniteSets, TLC

VARIABLES
    pc,           \* position of the caller: which operation has run
    callValue,    \* the Value handed to encode / stringify
    callValue2,   \* a second Value, structurally equal to callValue
    callOptions,  \* the options record handed to the operations
    encoded,      \* outcome of encode(callValue, callOptions)
    encoded2,     \* outcome of encode(callValue2, callOptions)
    callBuffer,   \* the byte buffer handed to decode
    tamper,       \* how callBuffer was derived from the encoder's output
    crafted,      \* the dictionary and root a hand-assembled callBuffer holds
    decoded,      \* outcome of decode(callBuffer, callOptions)
    callText,     \* the text handed to parse
    parsed,       \* outcome of parse(callText, callOptions)
    written,      \* how a hand-written text handed to parse was put together
    lexResult,    \* outcome of tokenize(callText, callOptions)
    pool          \* a decoder pool of createDecoderPool and its calls

vars == <<pc, callValue, callValue2, callOptions, encoded, encoded2, callBuffer,
          tamper, crafted, decoded, callText, parsed, written, lexResult, pool>>

----------------------------------------------------------------------------
(* Bounds of the model *)

\* largest number of nodes (scalars and containers) of a generated Value
MaxNodes == 4

\* largest value of the limits maxDepth, maxDictionarySize, maxStringLength
\* that is tried besides the defaults
MaxLimit == 2

----------------------------------------------------------------------------
(* Generic helpers *)

Min(a, b) == IF a < b THEN a ELSE b

Range(f) == {f[i] : i \in DOMAIN f}

RECURSIVE Flatten(_)
Flatten(ss) == IF ss = <<>> THEN <<>> ELSE Head(ss) \o Flatten(Tail(ss))

Take(s, n) == SubSeq(s, 1, Min(n, Len(s)))

Drop(s, n) == SubSeq(s, n + 1, Len(s))

----------------------------------------------------------------------------
(* Value model (ast) *)

Null == [k |-> "null", n |-> 0, s |-> <<>>, keys |-> <<>>, items |-> <<>>]

Bool(b) == [k |-> "bool", n |-> IF b THEN 1 ELSE 0, s |-> <<>>, keys |-> <<>>, items |-> <<>>]

Num(i) == [k |-> "num", n |-> i, s |-> <<>>, keys |-> <<>>, items |-> <<>>]

Str(cs) == [k |-> "str", n |-> 0, s |-> cs, keys |-> <<>>, items |-> <<>>]

Arr(vs) == [k |-> "arr", n |-> 0, s |-> <<>>, keys |-> <<>>, items |-> vs]

Obj(ks, vs) == [k |-> "obj", n |-> 0, s |-> <<>>, keys |-> ks, items |-> vs]

----------------------------------------------------------------------------
(* Binary format constants (encoder.ts / decoder.ts) *)

MAGIC == <<75, 79, 68, 65>>

VERSION == 1

TagNull == 1

TagFalse == 2

TagTrue == 3

TagInteger == 4

TagFloat == 5

TagString == 6

TagBinary == 7

TagArray == 16

TagObject == 17

----------------------------------------------------------------------------
(* Fixed-width big-endian integers (DataView.setUint32 / getUint32 /        *)
(* setBigInt64 / getBigInt64).  The model keeps lengths and integers below  *)
(* 2^31, so the top byte of a u32 it computes with is below 128.           *)

U32BE(n) == <<(n \div 16777216) % 256, (n \div 65536) % 256, (n \div 256) % 256, n % 256>>

FromU32BE(b) == ((b[1] * 256 + b[2]) * 256 + b[3]) * 256 + b[4]

\* two's complement on 64 bits: for n < 0 every byte is the complement of
\* the corresponding byte of -(n+1)
Int64BE(n) ==
    IF n >= 0 THEN <<0, 0, 0, 0>> \o U32BE(n)
    ELSE [i \in 1..8 |-> 255 - (<<0, 0, 0, 0>> \o U32BE(-(n + 1)))[i]]

FromInt64BE(b) ==
    IF b[1] < 128 THEN FromU32BE(SubSeq(b, 5, 8))
    ELSE -(FromU32BE([i \in 1..4 |-> 255 - b[i + 4]])) - 1

----------------------------------------------------------------------------
(* UTF-8 (TextEncoder.encode, TextDecoder('utf-8', {fatal: true})) *)

Utf8OfCodePoint(c) ==
    IF c < 128 THEN <<c>>
    ELSE IF c < 2048 THEN <<192 + (c \div 64), 128 + (c % 64)>>
    ELSE IF c < 65536 THEN <<224 + (c \div 4096), 128 + ((c \div 64) % 64), 128 + (c % 64)>>
    ELSE <<240 + (c \div 262144), 128 + ((c \div 4096) % 64),
           128 + ((c \div 64) % 64), 128 + (c % 64)>>

encodeUtf8(s) == Flatten([i \in DOMAIN s |-> Utf8OfCodePoint(s[i])])

IsCont(b) == b >= 128 /\ b <= 191

\* length of the well-formed UTF-8 sequence that starts at bytes[i], or 0
\* when the bytes there are ill-formed (overlong forms, surrogates, values
\* above U+10FFFF, stray or missing continuation bytes)
Utf8SeqLen(bytes, i) ==
    LET b0 == bytes[i]
        has(nn) == i + nn - 1 <= Len(bytes)
    IN  IF b0 < 128 THEN 1
        ELSE IF b0 >= 194 /\ b0 <= 223
            THEN IF has(2) /\ IsCont(bytes[i + 1]) THEN 2 ELSE 0
        ELSE IF b0 >= 224 /\ b0 <= 239
            THEN IF /\ has(3)
                    /\ IsCont(bytes[i + 1])
                    /\ IsCont(bytes[i + 2])
                    /\ (b0 = 224 => bytes[i + 1] >= 160)
                    /\ (b0 = 237 => bytes[i + 1] <= 159)
                 THEN 3 ELSE 0
        ELSE IF b0 >= 240 /\ b0 <= 244
            THEN IF /\ has(4)
                    /\ IsCont(bytes[i + 1])
                    /\ IsCont(bytes[i + 2])
                    /\ IsCont(bytes[i + 3])
                    /\ (b0 = 240 => bytes[i + 1] >= 144)
                    /\ (b0 = 244 => bytes[i + 1] <= 143)
                 THEN 4 ELSE 0
        ELSE 0

Utf8CodePoint(bytes, i, nn) ==
    IF nn = 1 THEN bytes[i]
    ELSE IF nn = 2 THEN (bytes[i] - 192) * 64 + (bytes[i + 1] - 128)
    ELSE IF nn = 3 THEN ((bytes[i] - 224) * 64 + (bytes[i + 1] - 128)) * 64 + (bytes[i + 2] - 128)
    ELSE (((bytes[i] - 240) * 64 + (bytes[i + 1] - 128)) * 64 + (bytes[i + 2] - 128)) * 64
         + (bytes[i + 3] - 128)

\* [ok |-> TRUE, s |-> code points] or [ok |-> FALSE, s |-> <<>>] (TypeError)
RECURSIVE decodeUtf8From(_, _, _)
decodeUtf8From(bytes, i, acc) ==
    IF i > Len(bytes) THEN [ok |-> TRUE, s |-> acc]
    ELSE LET nn == Utf8SeqLen(bytes, i)
         IN  IF nn = 0 THEN [ok |-> FALSE, s |-> <<>>]
             ELSE decodeUtf8From(bytes, i + nn, Append(acc, Utf8CodePoint(bytes, i, nn)))

decodeUtf8(bytes) == decodeUtf8From(bytes, 1, <<>>)

----------------------------------------------------------------------------
(* encoder.ts *)

\* Set.add on the insertion-ordered key set
SetAdd(set, k) == IF k \in Range(set) THEN set ELSE Append(set, k)

\* collectKeys(value, set): the key set after the scan, in insertion order
RECURSIVE collectKeys(_, _)
RECURSIVE collectKeysItems(_, _, _)
collectKeys(v, set) ==
    IF v.k = "arr" THEN collectKeysItems(v, 1, set)
    ELSE IF v.k = "obj" THEN collectKeysItems(v, 1, set)
    ELSE set

collectKeysItems(v, i, set) ==
    IF i > Len(v.items) THEN set
    ELSE collectKeysItems(v, i + 1,
            collectKeys(v.items[i], IF v.k = "obj" THEN SetAdd(set, v.keys[i]) ELSE set))

\* the comparator handed to sort: negative, zero or positive
RECURSIVE compareBytes(_, _, _)
compareBytes(aa, bb, i) ==
    IF i > Min(Len(aa), Len(bb)) THEN Len(aa) - Len(bb)
    ELSE IF aa[i] # bb[i] THEN aa[i] - bb[i]
    ELSE compareBytes(aa, bb, i + 1)

\* variant: the comparator without its final length comparison
compareKeys_noLength(a, b) ==
    LET aa == encodeUtf8(a)
        bb == encodeUtf8(b)
    IN  IF \E i \in 1..Min(Len(aa), Len(bb)) : aa[i] # bb[i]
        THEN compareBytes(aa, bb, 1)
        ELSE 0

compareKeys(a, b) == compareBytes(encodeUtf8(a), encodeUtf8(b), 1)

\* Array.prototype.sort with compareKeys (stable)
RECURSIVE InsertSorted(_, _)
InsertSorted(sorted, k) ==
    IF sorted = <<>> THEN <<k>>
    ELSE IF compareKeys(k, Head(sorted)) < 0 THEN <<k>> \o sorted
    ELSE <<Head(sorted)>> \o InsertSorted(Tail(sorted), k)

\* variant: the keys are left in insertion order
sortKeys_asInserted(ks) == ks

RECURSIVE sortKeys(_)
sortKeys(ks) ==
    IF ks = <<>> THEN <<>>
    ELSE InsertSorted(sortKeys(SubSeq(ks, 1, Len(ks) - 1)), ks[Len(ks)])

\* keyToIndex.get(key): the 0-based index, or -1 for undefined
keyToIndex(dictionary, key) ==
    IF \E i \in DOMAIN dictionary : dictionary[i] = key
    THEN (CHOOSE i \in DOMAIN dictionary : dictionary[i] = key) - 1
    ELSE -1

\* obj[key] for an own property of a Value
GetProp(obj, key) == obj.items[CHOOSE i \in DOMAIN obj.keys : obj.keys[i] = key]

\* encodeValue(v, depth): [ok, bytes, message]; bytes are the bytes written
\* by this call, also when it throws (ok = FALSE)
RECURSIVE encodeValue(_, _, _, _)
RECURSIVE encodeArrayItems(_, _, _, _, _, _)
RECURSIVE encodeObjectEntries(_, _, _, _, _, _, _)
encodeValue(v, depth, maxDepth, dictionary) ==
    IF depth > maxDepth
        THEN [ok |-> FALSE, bytes |-> <<>>, message |-> "Maximum nesting depth exceeded"]
    ELSE IF v.k = "null" THEN [ok |-> TRUE, bytes |-> <<TagNull>>, message |-> ""]
    ELSE IF v.k = "bool"
        THEN [ok |-> TRUE, bytes |-> <<IF v.n = 0 THEN TagFalse ELSE TagTrue>>, message |-> ""]
    ELSE IF v.k = "num"
        THEN [ok |-> TRUE, bytes |-> <<TagInteger>> \o Int64BE(v.n), message |-> ""]
    ELSE IF v.k = "str"
        THEN LET bytes == encodeUtf8(v.s)
             IN  [ok |-> TRUE, bytes |-> <<TagString>> \o U32BE(Len(bytes)) \o bytes,
                  message |-> ""]
    ELSE IF v.k = "arr"
        THEN encodeArrayItems(v, 1, depth, maxDepth, dictionary,
                              <<TagArray>> \o U32BE(Len(v.items)))
    ELSE LET sortedKeys == sortKeys(v.keys)
         IN  encodeObjectEntries(v, sortedKeys, 1, depth, maxDepth, dictionary,
                                 <<TagObject>> \o U32BE(Len(sortedKeys)))

encodeArrayItems(v, i, depth, maxDepth, dictionary, out) ==
    IF i > Len(v.items) THEN [ok |-> TRUE, bytes |-> out, message |-> ""]
    ELSE LET r == encodeValue(v.items[i], depth + 1, maxDepth, dictionary)
         IN  IF r.ok
             THEN encodeArrayItems(v, i + 1, depth, maxDepth, dictionary, out \o r.bytes)
             ELSE [r EXCEPT !.bytes = out \o r.bytes]

encodeObjectEntries(v, sortedKeys, i, depth, maxDepth, dictionary, out) ==
    IF i > Len(sortedKeys) THEN [ok |-> TRUE, bytes |-> out, message |-> ""]
    ELSE LET key == sortedKeys[i]
             idx == keyToIndex(dictionary, key)
         IN  IF idx = -1
             THEN [ok |-> FALSE, bytes |-> out, message |-> "Key not in dictionary"]
             ELSE LET r == encodeValue(GetProp(v, key), depth + 1, maxDepth, dictionary)
                  IN  IF r.ok
                      THEN encodeObjectEntries(v, sortedKeys, i + 1, depth, maxDepth,
                                               dictionary, out \o U32BE(idx) \o r.bytes)
                      ELSE [r EXCEPT !.bytes = out \o U32BE(idx) \o r.bytes]

\* the dictionary section: each key as u32 length + UTF-8 bytes
RECURSIVE writeDictionary(_)
writeDictionary(dictionary) ==
    IF dictionary = <<>> THEN <<>>
    ELSE LET bytes == encodeUtf8(Head(dictionary))
         IN  U32BE(Len(bytes)) \o bytes \o writeDictionary(Tail(dictionary))

\* encode(value, options): [ok, bytes, message, byteOffset]; on success bytes
\* is the returned buffer, on failure nothing is returned and byteOffset is
\* the write offset carried by the KodaEncodeError
encode(v, opts) ==
    LET dictionary == sortKeys(collectKeys(v, <<>>))
        head == MAGIC \o <<VERSION>> \o U32BE(Len(dictionary)) \o writeDictionary(dictionary)
        r == encodeValue(v, 0, opts.maxDepth, dictionary)
    IN  IF r.ok
        THEN [ok |-> TRUE, bytes |-> head \o r.bytes, message |-> "", byteOffset |-> 0]
        ELSE [ok |-> FALSE, bytes |-> <<>>, message |-> r.message,
              byteOffset |-> Len(head) + Len(r.bytes)]

\* the deepest level below the root at which collectKeys is called, when
\* the call for v is at `level`: it calls itself for every item and every
\* property value, whatever the level
RECURSIVE collectKeys_deepest(_, _)
RECURSIVE collectKeys_deepestItems(_, _, _, _)
collectKeys_deepest(v, level) ==
    IF v.k \in {"arr", "obj"} THEN collectKeys_deepestItems(v, 1, level, level)
    ELSE level

collectKeys_deepestItems(v, i, level, deepest) ==
    IF i > Len(v.items) THEN deepest
    ELSE LET below == collectKeys_deepest(v.items[i], level + 1)
         IN  collectKeys_deepestItems(v, i + 1, level,
                                      IF below > deepest THEN below ELSE deepest)

\* the deepest level at which encodeValue is called, when the call for v has
\* depth `depth`: [ok, deepest]; the traversal ends at the first call that
\* throws
RECURSIVE encodeValue_deepest(_, _, _)
RECURSIVE encodeValue_deepestItems(_, _, _, _, _)
encodeValue_deepest(v, depth, maxDepth) ==
    IF depth > maxDepth THEN [ok |-> FALSE, deepest |-> depth]
    ELSE IF v.k \in {"arr", "obj"} THEN encodeValue_deepestItems(v, 1, depth, maxDepth, depth)
    ELSE [ok |-> TRUE, deepest |-> depth]

encodeValue_deepestItems(v, i, depth, maxDepth, deepest) ==
    IF i > Len(v.items) THEN [ok |-> TRUE, deepest |-> deepest]
    ELSE LET r == encodeValue_deepest(v.items[i], depth + 1, maxDepth)
             d == IF r.deepest > deepest THEN r.deepest ELSE deepest
         IN  IF r.ok THEN encodeValue_deepestItems(v, i + 1, depth, maxDepth, d)
             ELSE [ok |-> FALSE, deepest |-> d]

----------------------------------------------------------------------------
(* decoder.ts *)

\* the key "__proto__"
PROTO == <<95, 95, 112, 114, 111, 116, 111, 95, 95>>

\* obj[key] = value on an object created by the literal {}: an existing own
\* property is overwritten in place, a new one is appended; "__proto__"
\* reaches the setter inherited from Object.prototype, which creates no own
\* property
setProperty(obj, key, val) ==
    IF key = PROTO THEN obj
    ELSE IF \E i \in DOMAIN obj.keys : obj.keys[i] = key
        THEN LET i == CHOOSE i \in DOMAIN obj.keys : obj.keys[i] = key
             IN  [obj EXCEPT !.items[i] = val]
    ELSE [obj EXCEPT !.keys = Append(@, key), !.items = Append(@, val)]

\* Object.prototype.hasOwnProperty.call(obj, key)
hasOwnProperty(obj, key) == \E i \in DOMAIN obj.keys : obj.keys[i] = key

\* a Float payload is kept as its 8 raw bytes
Float(bits) == [k |-> "float", n |-> 0, s |-> bits, keys |-> <<>>, items |-> <<>>]

\* variant: only the first of the n bytes is checked to be in the buffer
ensure_firstByte(buffer, offset, n) == n = 0 \/ offset < Len(buffer)

\* ensure(n) passes
ensure(buffer, offset, n) == offset + n <= Len(buffer)

\* the n bytes at the 0-based offset; every read is preceded by ensure, so
\* the positions read lie in the buffer (the value 0 given for a position
\* past the end is never used by decode)
bytesAt(buffer, offset, n) ==
    [i \in 1..n |-> IF offset + i <= Len(buffer) THEN buffer[offset + i] ELSE 0]

\* fail(message): a KodaDecodeError carrying the read offset
fail(message, offset) ==
    [ok |-> FALSE, value |-> Null, offset |-> offset, message |-> message,
     error |-> "KodaDecodeError"]

\* an exception thrown by TextDecoder.decode, which decode does not catch
utf8Failure(offset) ==
    [ok |-> FALSE, value |-> Null, offset |-> offset,
     message |-> "The encoded data was not valid", error |-> "TypeError"]

done(val, offset) ==
    [ok |-> TRUE, value |-> val, offset |-> offset, message |-> "", error |-> ""]

\* TextDecoder('utf-8', {fatal: true}).decode(bytes): ignoreBOM is left at
\* its default, false, so a leading byte order mark EF BB BF is consumed
\* and is not part of the decoded string
textDecoderDecode(bytes) ==
    LET r == decodeUtf8(bytes)
    IN  IF r.ok /\ r.s # <<>> /\ r.s[1] = 65279 THEN [r EXCEPT !.s = Tail(@)] ELSE r

\* variant: a value at exactly maxDepth is rejected too
maxDepthCheck_atLimit(depth, maxDepth) == depth >= maxDepth

maxDepthCheck(depth, maxDepth) == depth > maxDepth

stringTooLong(len, maxStr) == len > maxStr

\* decodeValue(depth) started at `offset`
RECURSIVE decodeValue(_, _, _, _, _)
RECURSIVE decodeArrayItems(_, _, _, _, _, _, _)
RECURSIVE decodeObjectEntries(_, _, _, _, _, _, _)
decodeValue(buffer, offset, depth, opts, dictionary) ==
    IF maxDepthCheck(depth, opts.maxDepth) THEN fail("Maximum nesting depth exceeded", offset)
    ELSE IF ~ensure(buffer, offset, 1) THEN fail("Truncated input", offset)
    ELSE LET tag == bytesAt(buffer, offset, 1)[1]
             at == offset + 1
         IN  IF tag = TagNull THEN done(Null, at)
             ELSE IF tag = TagFalse THEN done(Bool(FALSE), at)
             ELSE IF tag = TagTrue THEN done(Bool(TRUE), at)
             ELSE IF tag = TagInteger
                 THEN IF ~ensure(buffer, at, 8) THEN fail("Truncated input", at)
                      ELSE done(Num(FromInt64BE(bytesAt(buffer, at, 8))), at + 8)
             ELSE IF tag = TagFloat
                 THEN IF ~ensure(buffer, at, 8) THEN fail("Truncated input", at)
                      ELSE done(Float(bytesAt(buffer, at, 8)), at + 8)
             ELSE IF tag = TagString
                 THEN IF ~ensure(buffer, at, 4) THEN fail("Truncated input", at)
                      ELSE LET len == FromU32BE(bytesAt(buffer, at, 4))
                           IN  IF stringTooLong(len, opts.maxStringLength)
                                   THEN fail("String too long", at + 4)
                               ELSE IF ~ensure(buffer, at + 4, len)
                                   THEN fail("Truncated input", at + 4)
                               ELSE LET str == textDecoderDecode(bytesAt(buffer, at + 4, len))
                                    IN  IF str.ok THEN done(Str(str.s), at + 4 + len)
                                        ELSE utf8Failure(at + 4 + len)
             ELSE IF tag = TagBinary
                 THEN fail("Binary type not supported in this version", at)
             ELSE IF tag = TagArray
                 THEN IF ~ensure(buffer, at, 4) THEN fail("Truncated input", at)
                      ELSE decodeArrayItems(buffer, at + 4, depth, opts, dictionary,
                                            FromU32BE(bytesAt(buffer, at, 4)), <<>>)
             ELSE IF tag = TagObject
                 THEN IF ~ensure(buffer, at, 4) THEN fail("Truncated input", at)
                      ELSE decodeObjectEntries(buffer, at + 4, depth, opts, dictionary,
                                               FromU32BE(bytesAt(buffer, at, 4)),
                                               Obj(<<>>, <<>>))
             ELSE fail("Unknown type tag", at)

decodeArrayItems(buffer, offset, depth, opts, dictionary, count, arr) ==
    IF Len(arr) = count THEN done(Arr(arr), offset)
    ELSE LET r == decodeValue(buffer, offset, depth + 1, opts, dictionary)
         IN  IF r.ok
             THEN decodeArrayItems(buffer, r.offset, depth, opts, dictionary, count,
                                   Append(arr, r.value))
             ELSE r

decodeObjectEntries(buffer, offset, depth, opts, dictionary, remaining, obj) ==
    IF remaining = 0 THEN done(obj, offset)
    ELSE IF ~ensure(buffer, offset, 4) THEN fail("Truncated input", offset)
    ELSE LET keyIdx == FromU32BE(bytesAt(buffer, offset, 4))
         IN  IF keyIdx >= Len(dictionary) THEN fail("Invalid key index", offset + 4)
             ELSE LET r == decodeValue(buffer, offset + 4, depth + 1, opts, dictionary)
                  IN  IF r.ok
                      THEN decodeObjectEntries(buffer, r.offset, depth, opts, dictionary,
                                               remaining - 1,
                                               setProperty(obj, dictionary[keyIdx + 1], r.value))
                      ELSE r

dictionaryTooLarge(dictLen, maxDict) == dictLen > maxDict

\* variant: a key of exactly the limit is rejected too
keyTooLong_atLimit(keyLen, maxStr) == keyLen >= maxStr

keyTooLong(keyLen, maxStr) == keyLen > maxStr

\* the dictionary load loop: [ok, dictionary, offset, message, error]
RECURSIVE readDictionary(_, _, _, _, _)
readDictionary(buffer, offset, opts, dictLen, dictionary) ==
    IF Len(dictionary) = dictLen
        THEN [ok |-> TRUE, dictionary |-> dictionary, offset |-> offset,
              message |-> "", error |-> ""]
    ELSE IF ~ensure(buffer, offset, 4)
        THEN [ok |-> FALSE, dictionary |-> <<>>, offset |-> offset,
              message |-> "Truncated input", error |-> "KodaDecodeError"]
    ELSE LET keyLen == FromU32BE(bytesAt(buffer, offset, 4))
         IN  IF keyTooLong(keyLen, opts.maxStringLength)
                 THEN [ok |-> FALSE, dictionary |-> <<>>, offset |-> offset + 4,
                       message |-> "Key string too long", error |-> "KodaDecodeError"]
             ELSE IF ~ensure(buffer, offset + 4, keyLen)
                 THEN [ok |-> FALSE, dictionary |-> <<>>, offset |-> offset + 4,
                       message |-> "Truncated input", error |-> "KodaDecodeError"]
             ELSE LET str == textDecoderDecode(bytesAt(buffer, offset + 4, keyLen))
                  IN  IF str.ok
                      THEN readDictionary(buffer, offset + 4 + keyLen, opts, dictLen,
                                          Append(dictionary, str.s))
                      ELSE [ok |-> FALSE, dictionary |-> <<>>, offset |-> offset + 4 + keyLen,
                            message |-> "The encoded data was not valid",
                            error |-> "TypeError"]

\* variant: the loop over the magic bytes stops one byte early
magicMatches_first3(buffer) == \A i \in 1..3 : bytesAt(buffer, 0, 4)[i] = MAGIC[i]

magicMatches(buffer) == \A i \in 1..4 : bytesAt(buffer, 0, 4)[i] = MAGIC[i]

versionSupported(version) == version = VERSION

\* variant: the check after the root value is missing
trailingBytes_never(offset, length) == FALSE

trailingBytes(offset, length) == offset # length

\* decode(buffer, options): [ok, value, offset, message, error]; on failure no
\* Value is returned and offset is the byteOffset of the error
decode(buffer, opts) ==
    IF ~ensure(buffer, 0, 5) THEN fail("Truncated input", 0)
    ELSE IF ~magicMatches(buffer) THEN fail("Invalid magic number", 0)
    ELSE IF ~versionSupported(bytesAt(buffer, 4, 1)[1]) THEN fail("Unsupported version", 5)
    ELSE IF ~ensure(buffer, 5, 4) THEN fail("Truncated input", 5)
    ELSE LET dictLen == FromU32BE(bytesAt(buffer, 5, 4))
         IN  IF dictionaryTooLarge(dictLen, opts.maxDictionarySize)
                 THEN fail("Dictionary too large", 9)
             ELSE LET d == readDictionary(buffer, 9, opts, dictLen, <<>>)
                  IN  IF ~d.ok
                      THEN [ok |-> FALSE, value |-> Null, offset |-> d.offset,
                            message |-> d.message, error |-> d.error]
                      ELSE LET r == decodeValue(buffer, d.offset, 0, opts, d.dictionary)
                           IN  IF ~r.ok THEN r
                               ELSE IF trailingBytes(r.offset, Len(buffer))
                                   THEN fail("Trailing bytes after root value", r.offset)
                               ELSE r

\* The reads of decode, in order.  A trace is [ok, offset, reads]: offset is
\* the variable `offset`, reads the list of [at, n] of the reads made so far,
\* n bytes from the index `at`, and ok is FALSE once decode has thrown.

\* readU8, readU32, readI64, readF64, readBytes(n): ensure(n), the read at
\* offset, offset += n
traceRead(buffer, t, n) ==
    IF ~t.ok THEN t
    ELSE IF ~ensure(buffer, t.offset, n) THEN [t EXCEPT !.ok = FALSE]
    ELSE [t EXCEPT !.reads = Append(@, [at |-> t.offset, n |-> n]),
                   !.offset = @ + n]

traceStop(t) == [t EXCEPT !.ok = FALSE]

\* the n bytes of the last read of t
lastRead(buffer, t) ==
    bytesAt(buffer, t.reads[Len(t.reads)].at, t.reads[Len(t.reads)].n)

RECURSIVE traceValue(_, _, _, _, _)
RECURSIVE traceArrayItems(_, _, _, _, _, _)
RECURSIVE traceObjectEntries(_, _, _, _, _, _)
RECURSIVE traceString(_, _, _)

\* readU32 of a length, the limit check, readBytes and decodeUtf8
traceString(buffer, t, maxStr) ==
    LET t1 == traceRead(buffer, t, 4)
    IN  IF ~t1.ok THEN t1
        ELSE IF FromU32BE(lastRead(buffer, t1)) > maxStr THEN traceStop(t1)
        ELSE LET t2 == traceRead(buffer, t1, FromU32BE(lastRead(buffer, t1)))
             IN  IF ~t2.ok THEN t2
                 ELSE IF textDecoderDecode(lastRead(buffer, t2)).ok THEN t2
                 ELSE traceStop(t2)

\* decodeValue(depth) with the reads so far in t
traceValue(buffer, t, depth, opts, dictLen) ==
    IF ~t.ok THEN t
    ELSE IF maxDepthCheck(depth, opts.maxDepth) THEN traceStop(t)
    ELSE LET t1 == traceRead(buffer, t, 1)
             tag == lastRead(buffer, t1)[1]
         IN  IF ~t1.ok THEN t1
             ELSE IF tag \in {TagNull, TagFalse, TagTrue} THEN t1
             ELSE IF tag \in {TagInteger, TagFloat} THEN traceRead(buffer, t1, 8)
             ELSE IF tag = TagString THEN traceString(buffer, t1, opts.maxStringLength)
             ELSE IF tag = TagArray
                 THEN LET t2 == traceRead(buffer, t1, 4)
                      IN  IF ~t2.ok THEN t2
                          ELSE traceArrayItems(buffer, t2, depth, opts, dictLen,
                                               FromU32BE(lastRead(buffer, t2)))
             ELSE IF tag = TagObject
                 THEN LET t2 == traceRead(buffer, t1, 4)
                      IN  IF ~t2.ok THEN t2
                          ELSE traceObjectEntries(buffer, t2, depth, opts, dictLen,
                                                  FromU32BE(lastRead(buffer, t2)))
             ELSE traceStop(t1)

traceArrayItems(buffer, t, depth, opts, dictLen, remaining) ==
    IF ~t.ok \/ remaining = 0 THEN t
    ELSE traceArrayItems(buffer, traceValue(buffer, t, depth + 1, opts, dictLen),
                         depth, opts, dictLen, remaining - 1)

traceObjectEntries(buffer, t, depth, opts, dictLen, remaining) ==
    IF ~t.ok \/ remaining = 0 THEN t
    ELSE LET t1 == traceRead(buffer, t, 4)
         IN  IF ~t1.ok THEN t1
             ELSE IF FromU32BE(lastRead(buffer, t1)) >= dictLen THEN traceStop(t1)
             ELSE traceObjectEntries(buffer,
                      traceValue(buffer, t1, depth + 1, opts, dictLen),
                      depth, opts, dictLen, remaining - 1)

\* the dictionary load loop
RECURSIVE traceDictionary(_, _, _, _)
traceDictionary(buffer, t, opts, remaining) ==
    IF ~t.ok \/ remaining = 0 THEN t
    ELSE LET t1 == traceRead(buffer, t, 4)
         IN  IF ~t1.ok THEN t1
             ELSE IF keyTooLong(FromU32BE(lastRead(buffer, t1)), opts.maxStringLength)
                 THEN traceStop(t1)
             ELSE LET t2 == traceRead(buffer, t1, FromU32BE(lastRead(buffer, t1)))
                  IN  IF ~t2.ok THEN t2
                      ELSE IF ~textDecoderDecode(lastRead(buffer, t2)).ok THEN traceStop(t2)
                      ELSE traceDictionary(buffer, t2, opts, remaining - 1)

\* the rest of decode after the dictionary count has been read into t
traceBody(buffer, t, opts, dictLen) ==
    IF dictionaryTooLarge(dictLen, opts.maxDictionarySize) THEN traceStop(t)
    ELSE LET r == traceValue(buffer, traceDictionary(buffer, t, opts, dictLen), 0, opts,
                             dictLen)
         IN  IF r.ok /\ trailingBytes(r.offset, Len(buffer)) THEN traceStop(r) ELSE r

\* decode(buffer, options) as the list of its reads: let offset = 0,
\* ensure(5), the four magic bytes read at offset + i and offset += 4, the
\* version, the dictionary, the root value and the final offset check
decodeTrace(buffer, opts) ==
    LET t0 == [ok |-> TRUE, offset |-> 0, reads |-> <<>>]
        magic == [t0 EXCEPT !.reads = <<[at |-> 0, n |-> 4]>>, !.offset = 4]
        version == traceRead(buffer, magic, 1)
        count == traceRead(buffer, version, 4)
    IN  IF ~ensure(buffer, 0, 5) THEN traceStop(t0)
        ELSE IF ~magicMatches(buffer) THEN traceStop([magic EXCEPT !.offset = 0])
        ELSE IF ~versionSupported(lastRead(buffer, version)[1]) THEN traceStop(version)
        ELSE IF ~count.ok THEN count
        ELSE traceBody(buffer, count, opts, FromU32BE(lastRead(buffer, count)))

----------------------------------------------------------------------------
(* native/koda_binary.cc: the C++ decoder. A std::string is the byte
   string itself: Str(bytes) and the keys of Obj hold bytes, not code
   points, and an object is the vector of its (key, value) pairs in the
   order read. *)

\* throw std::runtime_error(message), the read offset kept for comparison
native_fail(message, offset) ==
    [ok |-> FALSE, value |-> Null, offset |-> offset, message |-> message,
     error |-> "std::runtime_error"]

\* Decoder::ensure(n)
native_ensure(data, offset, n) == ~(offset + n > Len(data))

\* Decoder::decode_value(depth) started at `offset`
RECURSIVE native_decode_value(_, _, _, _, _)
RECURSIVE native_decode_array(_, _, _, _, _, _, _)
RECURSIVE native_decode_object(_, _, _, _, _, _, _)
native_decode_value(data, offset, depth, opts, dictionary) ==
    IF depth > opts.maxDepth THEN native_fail("Maximum nesting depth exceeded", offset)
    ELSE IF ~native_ensure(data, offset, 1) THEN native_fail("Truncated input", offset)
    ELSE LET tag == bytesAt(data, offset, 1)[1]
             at == offset + 1
         IN  IF tag = TagNull THEN done(Null, at)
             ELSE IF tag = TagFalse THEN done(Bool(FALSE), at)
             ELSE IF tag = TagTrue THEN done(Bool(TRUE), at)
             ELSE IF tag = TagInteger
                 THEN IF ~native_ensure(data, at, 8) THEN native_fail("Truncated input", at)
                      ELSE done(Num(FromInt64BE(bytesAt(data, at, 8))), at + 8)
             ELSE IF tag = TagFloat
                 THEN IF ~native_ensure(data, at, 8) THEN native_fail("Truncated input", at)
                      ELSE done(Float(bytesAt(data, at, 8)), at + 8)
             ELSE IF tag = TagString
                 THEN IF ~native_ensure(data, at, 4) THEN native_fail("Truncated input", at)
                      ELSE LET len == FromU32BE(bytesAt(data, at, 4))
                           IN  IF len > opts.maxStringLength
                                   THEN native_fail("String too long", at + 4)
                               ELSE IF ~native_ensure(data, at + 4, len)
                                   THEN native_fail("Truncated input", at + 4)
                               ELSE done(Str(bytesAt(data, at + 4, len)), at + 4 + len)
             ELSE IF tag = TagBinary THEN native_fail("Binary type not supported", at)
             ELSE IF tag = TagArray
                 THEN IF ~native_ensure(data, at, 4) THEN native_fail("Truncated input", at)
                      ELSE native_decode_array(data, at + 4, depth, opts, dictionary,
                                               FromU32BE(bytesAt(data, at, 4)), <<>>)
             ELSE IF tag = TagObject
                 THEN IF ~native_ensure(data, at, 4) THEN native_fail("Truncated input", at)
                      ELSE native_decode_object(data, at + 4, depth, opts, dictionary,
                                                FromU32BE(bytesAt(data, at, 4)),
                                                Obj(<<>>, <<>>))
             ELSE native_fail("Unknown type tag", at)

native_decode_array(data, offset, depth, opts, dictionary, n, arr) ==
    IF Len(arr) = n THEN done(Arr(arr), offset)
    ELSE LET r == native_decode_value(data, offset, depth + 1, opts, dictionary)
         IN  IF r.ok
             THEN native_decode_array(data, r.offset, depth, opts, dictionary, n,
                                      Append(arr, r.value))
             ELSE r

native_decode_object(data, offset, depth, opts, dictionary, remaining, obj) ==
    IF remaining = 0 THEN done(obj, offset)
    ELSE IF ~native_ensure(data, offset, 4) THEN native_fail("Truncated input", offset)
    ELSE LET idx == FromU32BE(bytesAt(data, offset, 4))
         IN  IF idx >= Len(dictionary) THEN native_fail("Invalid key index", offset + 4)
             ELSE LET r == native_decode_value(data, offset + 4, depth + 1, opts, dictionary)
                  IN  IF r.ok
                      THEN native_decode_object(data, r.offset, depth, opts, dictionary,
                                                remaining - 1,
                                                Obj(Append(obj.keys, dictionary[idx + 1]),
                                                    Append(obj.items, r.value)))
                      ELSE r

\* the dictionary load loop of koda::decode: [ok, dictionary, offset, message]
RECURSIVE native_read_dictionary(_, _, _, _, _)
native_read_dictionary(data, offset, opts, dict_len, dictionary) ==
    IF Len(dictionary) = dict_len
        THEN [ok |-> TRUE, dictionary |-> dictionary, offset |-> offset, message |-> ""]
    ELSE IF ~native_ensure(data, offset, 4)
        THEN [ok |-> FALSE, dictionary |-> <<>>, offset |-> offset,
              message |-> "Truncated input"]
    ELSE LET key_len == FromU32BE(bytesAt(data, offset, 4))
         IN  IF key_len > opts.maxStringLength
                 THEN [ok |-> FALSE, dictionary |-> <<>>, offset |-> offset + 4,
                       message |-> "Key string too long"]
             ELSE IF ~native_ensure(data, offset + 4, key_len)
                 THEN [ok |-> FALSE, dictionary |-> <<>>, offset |-> offset + 4,
                       message |-> "Truncated input"]
             ELSE native_read_dictionary(data, offset + 4 + key_len, opts, dict_len,
                      Append(dictionary, bytesAt(data, offset + 4, key_len)))

\* the root value and the check that nothing follows it
native_decode_root(data, opts, d) ==
    IF ~d.ok THEN native_fail(d.message, d.offset)
    ELSE LET v == native_decode_value(data, d.offset, 0, opts, d.dictionary)
         IN  IF ~v.ok THEN v
             ELSE IF v.offset # Len(data)
                 THEN native_fail("Trailing bytes after root value", v.offset)
             ELSE v

\* koda::decode(data, size, max_depth, max_dict, max_str_len)
native_decode(data, opts) ==
    IF ~native_ensure(data, 0, 5) THEN native_fail("Truncated input", 0)
    ELSE IF \E i \in 1..4 : bytesAt(data, 0, 4)[i] # MAGIC[i]
        THEN native_fail("Invalid magic number", 0)
    ELSE IF bytesAt(data, 4, 1)[1] # VERSION THEN native_fail("Unsupported version", 5)
    ELSE IF ~native_ensure(data, 5, 4) THEN native_fail("Truncated input", 5)
    ELSE IF FromU32BE(bytesAt(data, 5, 4)) > opts.maxDictionarySize
        THEN native_fail("Dictionary too large", 9)
    ELSE native_decode_root(data, opts,
             native_read_dictionary(data, 9, opts, FromU32BE(bytesAt(data, 5, 4)), <<>>))

----------------------------------------------------------------------------
(* lexer.ts *)

\* the characters the lexer, the parser and stringify name, as code points
Ch == [tab |-> 9, lf |-> 10, ff |-> 12, cr |-> 13, bs |-> 8, space |-> 32,
       dquote |-> 34, squote |-> 39, star |-> 42, plus |-> 43, comma |-> 44,
       minus |-> 45, dot |-> 46, slash |-> 47, zero |-> 48, one |-> 49,
       nine |-> 57, colon |-> 58, upperA |-> 65, upperE |-> 69, upperF |-> 70,
       upperZ |-> 90, lbracket |-> 91, backslash |-> 92, rbracket |-> 93,
       underscore |-> 95, a |-> 97, b |-> 98, e |-> 101, f |-> 102, n |-> 110,
       r |-> 114, t |-> 116, u |-> 117, z |-> 122, lbrace |-> 123,
       rbrace |-> 125]

\* the reserved spellings true, false, null
KwTrue == <<116, 114, 117, 101>>

KwFalse == <<102, 97, 108, 115, 101>>

KwNull == <<110, 117, 108, 108>>

IsDigit(c) == c >= Ch.zero /\ c <= Ch.nine

IsLetter(c) == (c >= Ch.a /\ c <= Ch.z) \/ (c >= Ch.upperA /\ c <= Ch.upperZ)

\* the regular expression class \w
IsWordChar(c) == IsLetter(c) \/ IsDigit(c) \/ c = Ch.underscore

IsHexDigit(c) ==
    IsDigit(c) \/ (c >= Ch.a /\ c <= Ch.f) \/ (c >= Ch.upperA /\ c <= Ch.upperF)

HexValue(c) ==
    IF IsDigit(c) THEN c - Ch.zero
    ELSE IF c >= Ch.a THEN c - Ch.a + 10
    ELSE c - Ch.upperA + 10

pos(line, column, offset) == [line |-> line, column |-> column, offset |-> offset]

\* input[offset] of the lexer state P, -1 for undefined
peek(input, P) == IF P.offset < Len(input) THEN input[P.offset + 1] ELSE -1

peekAhead(input, P, n) ==
    IF P.offset + n < Len(input) THEN input[P.offset + n + 1] ELSE -1

\* the lexer state after advance(); unchanged at the end of the input
advance(input, P) ==
    IF P.offset >= Len(input) THEN P
    ELSE IF input[P.offset + 1] = Ch.lf THEN pos(P.line + 1, 1, P.offset + 1)
    ELSE pos(P.line, P.column + 1, P.offset + 1)

\* fail(message) of the lexer: the position is makeStart(), the lexer state at
\* the time of the call
lexFail(message, P) ==
    [ok |-> FALSE, message |-> message, position |-> P, at |-> P, token |-> <<>>]

lexAt(P) == [ok |-> TRUE, message |-> "", position |-> P, at |-> P, token |-> <<>>]

\* a token pushed, the lexer left at P
lexToken(kind, val, start, P) ==
    [ok |-> TRUE, message |-> "", position |-> P, at |-> P,
     token |-> <<[kind |-> kind, value |-> val, start |-> start, end |-> P]>>]

RECURSIVE skipLineComment(_, _)
skipLineComment(input, P) ==
    IF peek(input, P) # -1 /\ peek(input, P) # Ch.lf
    THEN skipLineComment(input, advance(input, P))
    ELSE P

\* variant: a comment opened inside a comment is not counted
RECURSIVE skipBlockComment_flat(_, _, _)
skipBlockComment_flat(input, P, depth) ==
    IF depth = 0 THEN lexAt(P)
    ELSE LET x == peek(input, P)
             P1 == advance(input, P)
         IN  IF x = -1 THEN lexFail("Unclosed multi-line comment", P1)
             ELSE IF x = Ch.star /\ peek(input, P1) = Ch.slash
                 THEN skipBlockComment_flat(input, advance(input, P1), depth - 1)
             ELSE skipBlockComment_flat(input, P1, depth)

RECURSIVE skipBlockComment(_, _, _)
skipBlockComment(input, P, depth) ==
    IF depth = 0 THEN lexAt(P)
    ELSE LET x == peek(input, P)
             P1 == advance(input, P)
         IN  IF x = -1 THEN lexFail("Unclosed multi-line comment", P1)
             ELSE IF x = Ch.star /\ peek(input, P1) = Ch.slash
                 THEN skipBlockComment(input, advance(input, P1), depth - 1)
             ELSE IF x = Ch.slash /\ peek(input, P1) = Ch.star
                 THEN skipBlockComment(input, advance(input, P1), depth + 1)
             ELSE skipBlockComment(input, P1, depth)

RECURSIVE skipWhitespaceAndComments(_, _)
skipWhitespaceAndComments(input, P) ==
    LET c == peek(input, P)
    IN  IF c = -1 THEN lexAt(P)
        ELSE IF c \in {Ch.space, Ch.tab, Ch.cr, Ch.lf}
            THEN skipWhitespaceAndComments(input, advance(input, P))
        ELSE IF c = Ch.slash /\ peekAhead(input, P, 1) = Ch.slash
            THEN skipWhitespaceAndComments(input,
                     skipLineComment(input, advance(input, advance(input, P))))
        ELSE IF c = Ch.slash /\ peekAhead(input, P, 1) = Ch.star
            THEN LET r == skipBlockComment(input, advance(input, advance(input, P)), 1)
                 IN  IF r.ok THEN skipWhitespaceAndComments(input, r.at) ELSE r
        ELSE lexAt(P)

\* variant: the loop reads three hex digits
RECURSIVE readHex4_three(_, _, _, _)
readHex4_three(input, P, i, acc) ==
    IF i >= 3 THEN [lexAt(P) EXCEPT !.token = <<acc>>]
    ELSE LET h == peek(input, P)
             P1 == advance(input, P)
         IN  IF h = -1 THEN lexFail("Incomplete \\u escape", P1)
             ELSE IF ~IsHexDigit(h) THEN lexFail("Invalid \\u escape", P1)
             ELSE readHex4_three(input, P1, i + 1, acc * 16 + HexValue(h))

\* the escape \uXXXX, P after the u: [ok, cp, at] or a failure
RECURSIVE readHex4(_, _, _, _)
readHex4(input, P, i, acc) ==
    IF i = 4 THEN [lexAt(P) EXCEPT !.token = <<acc>>]
    ELSE LET h == peek(input, P)
             P1 == advance(input, P)
         IN  IF h = -1 THEN lexFail("Incomplete \\u escape", P1)
             ELSE IF ~IsHexDigit(h) THEN lexFail("Invalid \\u escape", P1)
             ELSE readHex4(input, P1, i + 1, acc * 16 + HexValue(h))

\* the loop of readQuotedString, after the opening quote
RECURSIVE readQuotedLoop(_, _, _, _, _)
readQuotedLoop(input, P, quote, buf, start) ==
    LET c == peek(input, P)
        P1 == advance(input, P)
    IN  IF c = -1 THEN lexFail("Unclosed string", P1)
        ELSE IF c = quote THEN lexToken("String", Str(buf), start, P1)
        ELSE IF c = Ch.backslash
            THEN LET next == peek(input, P1)
                     P2 == advance(input, P1)
                 IN  IF next = -1 THEN lexFail("Unclosed string", P2)
                     ELSE IF next = quote
                         THEN readQuotedLoop(input, P2, quote, Append(buf, quote), start)
                     ELSE IF next = Ch.backslash
                         THEN readQuotedLoop(input, P2, quote, Append(buf, Ch.backslash), start)
                     ELSE IF next = Ch.slash
                         THEN readQuotedLoop(input, P2, quote, Append(buf, Ch.slash), start)
                     ELSE IF next = Ch.b
                         THEN readQuotedLoop(input, P2, quote, Append(buf, Ch.bs), start)
                     ELSE IF next = Ch.f
                         THEN readQuotedLoop(input, P2, quote, Append(buf, Ch.ff), start)
                     ELSE IF next = Ch.n
                         THEN readQuotedLoop(input, P2, quote, Append(buf, Ch.lf), start)
                     ELSE IF next = Ch.r
                         THEN readQuotedLoop(input, P2, quote, Append(buf, Ch.cr), start)
                     ELSE IF next = Ch.t
                         THEN readQuotedLoop(input, P2, quote, Append(buf, Ch.tab), start)
                     ELSE IF next = Ch.u
                         THEN LET h == readHex4(input, P2, 0, 0)
                              IN  IF h.ok
                                  THEN readQuotedLoop(input, h.at, quote,
                                                      Append(buf, h.token[1]), start)
                                  ELSE h
                     ELSE lexFail("Invalid escape sequence", P2)
        ELSE IF c >= 0 /\ c <= 31 THEN lexFail("Control character in string", P1)
        ELSE readQuotedLoop(input, P1, quote, Append(buf, c), start)

readQuotedString(input, P, quote) ==
    readQuotedLoop(input, advance(input, P), quote, <<>>, P)

\* the loop of readIdentifierOrKeyword: the raw text and the state after it
RECURSIVE readIdentifierLoop(_, _, _)
readIdentifierLoop(input, P, buf) ==
    LET c == peek(input, P)
    IN  IF c # -1 /\ (IsWordChar(c) \/ c = Ch.minus)
        THEN readIdentifierLoop(input, advance(input, P), Append(buf, c))
        ELSE [raw |-> buf, at |-> P]

readIdentifierOrKeyword(input, P) ==
    LET first == peek(input, P)
        P1 == advance(input, P)
    IN  IF first = -1 \/ ~IsWordChar(first)
        THEN lexFail("Expected identifier or keyword", P1)
        ELSE LET r == readIdentifierLoop(input, P1, <<first>>)
             IN  IF r.raw = KwTrue THEN lexToken("True", Null, P, r.at)
                 ELSE IF r.raw = KwFalse THEN lexToken("False", Null, P, r.at)
                 ELSE IF r.raw = KwNull THEN lexToken("Null", Null, P, r.at)
                 ELSE lexToken("Identifier", Str(r.raw), P, r.at)

\* while (c is a digit) buf.push(advance())
RECURSIVE readDigits(_, _, _)
readDigits(input, P, buf) ==
    IF peek(input, P) # -1 /\ IsDigit(peek(input, P))
    THEN readDigits(input, advance(input, P), Append(buf, peek(input, P)))
    ELSE [raw |-> buf, at |-> P]

\* the value of a run of decimal digits (the model's numbers have at most
\* nine digits, so every one is a safe integer)
RECURSIVE DigitsValue(_)
DigitsValue(ds) ==
    IF ds = <<>> THEN 0 ELSE DigitsValue(SubSeq(ds, 1, Len(ds) - 1)) * 10 + (ds[Len(ds)] - Ch.zero)

\* parseInt(raw, 10) of an optional '-' and digits
parseInt(raw) ==
    IF raw # <<>> /\ raw[1] = Ch.minus THEN -DigitsValue(Tail(raw)) ELSE DigitsValue(raw)

\* parseFloat(raw): a number; when raw has no exponent and its fraction is
\* zero the number is the integer before the '.', otherwise the number is
\* kept as its text without the trailing zeros of the fraction
RECURSIVE StripZeros(_)
StripZeros(raw) ==
    IF raw # <<>> /\ raw[Len(raw)] = Ch.zero THEN StripZeros(SubSeq(raw, 1, Len(raw) - 1))
    ELSE raw

parseFloat(raw) ==
    IF \E i \in DOMAIN raw : raw[i] \in {Ch.e, Ch.upperE}
    THEN [k |-> "float", n |-> 0, s |-> raw, keys |-> <<>>, items |-> <<>>]
    ELSE LET dot == CHOOSE i \in DOMAIN raw : raw[i] = Ch.dot
             stripped == StripZeros(raw)
         IN  IF Len(stripped) = dot
             THEN Num(parseInt(SubSeq(raw, 1, dot - 1)))
             ELSE [k |-> "float", n |-> 0, s |-> stripped, keys |-> <<>>, items |-> <<>>]

\* the part of readNumber after the integer digits: fraction and exponent
readNumberTail(input, P, buf, start) ==
    LET hasDot == peek(input, P) = Ch.dot
        frac == IF hasDot
                THEN readDigits(input, advance(input, P), Append(buf, Ch.dot))
                ELSE [raw |-> buf, at |-> P]
        hasExp == peek(input, frac.at) \in {Ch.e, Ch.upperE}
        afterE == advance(input, frac.at)
        hasSign == peek(input, afterE) \in {Ch.plus, Ch.minus}
        afterSign == IF hasSign THEN advance(input, afterE) ELSE afterE
        bufE == IF hasSign
                THEN frac.raw \o <<peek(input, frac.at), peek(input, afterE)>>
                ELSE Append(frac.raw, peek(input, frac.at))
    IN  IF hasExp
        THEN IF peek(input, afterSign) = -1 \/ ~IsDigit(peek(input, afterSign))
             THEN lexFail("Invalid exponent", afterSign)
             ELSE LET ex == readDigits(input, afterSign, bufE)
                  IN  lexToken("Float", parseFloat(ex.raw), start, ex.at)
        ELSE IF hasDot THEN lexToken("Float", parseFloat(frac.raw), start, frac.at)
        ELSE lexToken("Integer", Num(parseInt(frac.raw)), start, frac.at)

readNumber(input, P) ==
    LET neg == peek(input, P) = Ch.minus
        P1 == IF neg THEN advance(input, P) ELSE P
        buf1 == IF neg THEN <<Ch.minus>> ELSE <<>>
        c == peek(input, P1)
    IN  IF c = Ch.zero
        THEN LET P2 == advance(input, P1)
                 c2 == peek(input, P2)
             IN  IF c2 \in {Ch.dot, Ch.e, Ch.upperE}
                     THEN readNumberTail(input, P2, Append(buf1, Ch.zero), P)
                 ELSE IF c2 # -1 /\ c2 >= Ch.one /\ c2 <= Ch.nine
                     THEN lexFail("Invalid number: leading zero", P2)
                 ELSE lexToken("Integer", Num(0), P, P2)
        ELSE IF c # -1 /\ c >= Ch.one /\ c <= Ch.nine
            THEN LET d == readDigits(input, P1, buf1)
                 IN  readNumberTail(input, d.at, d.raw, P)
        ELSE IF c = Ch.dot
            THEN LET P2 == advance(input, P1)
                 IN  IF peek(input, P2) = -1 \/ ~IsDigit(peek(input, P2))
                     THEN lexFail("Invalid number: expected digits after .", P2)
                     ELSE LET d == readDigits(input, P2, Append(buf1, Ch.dot))
                          IN  lexToken("Float", parseFloat(d.raw), P, d.at)
        ELSE lexFail("Invalid number", P1)

\* emit(kind), called after the character has been consumed: start and end
\* are both makeStart() at the time of the call
emit(kind, P) == lexToken(kind, Null, P, P)

inputTooLong(length, maxLen) == length > maxLen

\* one round of the main loop of tokenize at lexer state P, after
\* skipWhitespaceAndComments: the token pushed, or a failure
nextToken(input, P) ==
    LET c == peek(input, P)
        P1 == advance(input, P)
    IN  IF c = Ch.lbrace THEN emit("LBrace", P1)
        ELSE IF c = Ch.rbrace THEN emit("RBrace", P1)
        ELSE IF c = Ch.lbracket THEN emit("LBracket", P1)
        ELSE IF c = Ch.rbracket THEN emit("RBracket", P1)
        ELSE IF c = Ch.colon THEN emit("Colon", P1)
        ELSE IF c = Ch.comma THEN emit("Comma", P1)
        ELSE IF c = Ch.dquote \/ c = Ch.squote THEN readQuotedString(input, P, c)
        ELSE IF c = Ch.minus \/ IsDigit(c) THEN readNumber(input, P)
        ELSE IF IsLetter(c) \/ c = Ch.underscore THEN readIdentifierOrKeyword(input, P)
        ELSE lexFail("Unexpected character", P)

\* the main loop of tokenize: [ok, tokens, message, position]
RECURSIVE tokenizeLoop(_, _, _)
tokenizeLoop(input, P, tokens) ==
    LET sk == skipWhitespaceAndComments(input, P)
    IN  IF ~sk.ok
            THEN [ok |-> FALSE, tokens |-> <<>>, message |-> sk.message,
                  position |-> sk.position]
        ELSE IF sk.at.offset >= Len(input)
            THEN [ok |-> TRUE,
                  tokens |-> Append(tokens, [kind |-> "Eof", value |-> Null,
                                             start |-> sk.at, end |-> sk.at]),
                  message |-> "", position |-> sk.at]
        ELSE LET r == nextToken(input, sk.at)
             IN  IF r.ok THEN tokenizeLoop(input, r.at, tokens \o r.token)
                 ELSE [ok |-> FALSE, tokens |-> <<>>, message |-> r.message,
                       position |-> r.position]

tokenize(input, opts) ==
    IF inputTooLong(Len(input), opts.maxInputLength)
    THEN [ok |-> FALSE, tokens |-> <<>>, message |-> "Input exceeds maximum length",
          position |-> pos(1, 1, 0)]
    ELSE tokenizeLoop(input, pos(1, 1, 0), <<>>)

----------------------------------------------------------------------------
(* parser.ts: parse and the class Parser *)

\* this.current with the parser at the 0-based index
current(tokens, index) ==
    IF index < Len(tokens) THEN tokens[index + 1] ELSE tokens[Len(tokens)]

at(tokens, index, kind) == current(tokens, index).kind = kind

\* this.index after advance()
advanceIndex(tokens, index) == IF index < Len(tokens) - 1 THEN index + 1 ELSE index

parseFail(message, position) ==
    [ok |-> FALSE, value |-> Null, index |-> 0, message |-> message, position |-> position]

parsedValue(val, index) ==
    [ok |-> TRUE, value |-> val, index |-> index, message |-> "",
     position |-> pos(0, 0, 0)]

\* expect(kind): the message names the kind expected
expect(tokens, index, kind, val) ==
    IF current(tokens, index).kind # kind
    THEN parseFail("Expected " \o kind \o ", got " \o current(tokens, index).kind,
                   current(tokens, index).start)
    ELSE parsedValue(val, advanceIndex(tokens, index))

\* variant: a value at exactly maxDepth is rejected too
depthExceeded_atLimit(depth, maxDepth) == depth >= maxDepth

depthExceeded(depth, maxDepth) == depth > maxDepth

RECURSIVE parseValue(_, _, _, _)
RECURSIVE parseObjectLoop(_, _, _, _, _)
RECURSIVE parseArrayLoop(_, _, _, _, _)

\* while (!this.at(RBrace)) { key, optional colon, value, duplicate check,
\* optional comma }, then expect(RBrace)
parseObjectLoop(tokens, index, depth, maxDepth, obj) ==
    IF at(tokens, index, "RBrace") THEN expect(tokens, index, "RBrace", obj)
    ELSE LET keyToken == current(tokens, index)
         IN  IF keyToken.kind \notin {"Identifier", "String"}
             THEN parseFail("Expected key (identifier or string)", keyToken.start)
             ELSE LET key == keyToken.value.s
                      i1 == advanceIndex(tokens, index)
                      i2 == IF at(tokens, i1, "Colon") THEN advanceIndex(tokens, i1) ELSE i1
                      v == parseValue(tokens, i2, depth + 1, maxDepth)
                  IN  IF ~v.ok THEN v
                      ELSE IF hasOwnProperty(obj, key)
                          THEN parseFail("Duplicate key", keyToken.start)
                      ELSE LET i3 == IF at(tokens, v.index, "Comma")
                                     THEN advanceIndex(tokens, v.index) ELSE v.index
                           IN  parseObjectLoop(tokens, i3, depth, maxDepth,
                                               setProperty(obj, key, v.value))

parseObject(tokens, index, depth, maxDepth) ==
    LET open == expect(tokens, index, "LBrace", Null)
    IN  IF ~open.ok THEN open
        ELSE parseObjectLoop(tokens, open.index, depth, maxDepth, Obj(<<>>, <<>>))

parseArrayLoop(tokens, index, depth, maxDepth, arr) ==
    IF at(tokens, index, "RBracket") THEN expect(tokens, index, "RBracket", Arr(arr))
    ELSE LET v == parseValue(tokens, index, depth + 1, maxDepth)
         IN  IF ~v.ok THEN v
             ELSE LET i1 == IF at(tokens, v.index, "Comma")
                            THEN advanceIndex(tokens, v.index) ELSE v.index
                  IN  parseArrayLoop(tokens, i1, depth, maxDepth, Append(arr, v.value))

parseArray(tokens, index, depth, maxDepth) ==
    LET open == expect(tokens, index, "LBracket", Null)
    IN  IF ~open.ok THEN open
        ELSE parseArrayLoop(tokens, open.index, depth, maxDepth, <<>>)

parseValue(tokens, index, depth, maxDepth) ==
    LET tok == current(tokens, index)
    IN  IF depthExceeded(depth, maxDepth)
            THEN parseFail("Maximum nesting depth exceeded", tok.start)
        ELSE IF tok.kind = "LBrace" THEN parseObject(tokens, index, depth, maxDepth)
        ELSE IF tok.kind = "LBracket" THEN parseArray(tokens, index, depth, maxDepth)
        ELSE IF tok.kind \in {"String", "Identifier", "Integer", "Float"}
            THEN parsedValue(tok.value, advanceIndex(tokens, index))
        ELSE IF tok.kind = "True" THEN parsedValue(Bool(TRUE), advanceIndex(tokens, index))
        ELSE IF tok.kind = "False" THEN parsedValue(Bool(FALSE), advanceIndex(tokens, index))
        ELSE IF tok.kind = "Null" THEN parsedValue(Null, advanceIndex(tokens, index))
        ELSE parseFail("Unexpected token", tok.start)

\* the parser index after a key and the colon that may follow it
afterKey(tokens, index) ==
    IF at(tokens, advanceIndex(tokens, index), "Colon")
    THEN advanceIndex(tokens, advanceIndex(tokens, index))
    ELSE advanceIndex(tokens, index)

\* while (at Identifier or String) { key, optional colon, value, duplicate
\* check }: no comma is consumed between the pairs of the root
RECURSIVE parseRootObject(_, _, _, _, _)
RECURSIVE parseRootPair(_, _, _, _, _, _)
parseRootObject(tokens, index, depth, maxDepth, obj) ==
    IF ~(at(tokens, index, "Identifier") \/ at(tokens, index, "String"))
    THEN parsedValue(obj, index)
    ELSE parseRootPair(tokens, current(tokens, index),
                       parseValue(tokens, afterKey(tokens, index), depth + 1, maxDepth),
                       depth, maxDepth, obj)

\* the rest of one round of the loop, the value v of the pair parsed
parseRootPair(tokens, keyToken, v, depth, maxDepth, obj) ==
    IF ~v.ok THEN v
    ELSE IF hasOwnProperty(obj, keyToken.value.s)
        THEN parseFail("Duplicate key", keyToken.start)
    ELSE parseRootObject(tokens, v.index, depth, maxDepth,
                         setProperty(obj, keyToken.value.s, v.value))

canBeKey(tokens) == at(tokens, 0, "Identifier") \/ at(tokens, 0, "String")

\* variant: the token after the first is not looked at
hasMore_anyToken(tokens) == 1 < Len(tokens)

hasMore(tokens) == 1 < Len(tokens) /\ tokens[2].kind # "Eof"

parseDocument(tokens, maxDepth) ==
    IF canBeKey(tokens) /\ hasMore(tokens)
    THEN parseRootObject(tokens, 0, 0, maxDepth, Obj(<<>>, <<>>))
    ELSE parseValue(tokens, 0, 0, maxDepth)

\* what parse hands to its caller: the value returned or the error thrown
parseOutcome(r) ==
    [ok |-> r.ok, value |-> r.value, message |-> r.message, position |-> r.position]

\* p.expect(TokenKind.Eof) after p.parseDocument() returned or threw doc
expectEof(tokens, doc) ==
    IF doc.ok THEN parseOutcome(expect(tokens, doc.index, "Eof", doc.value))
    ELSE parseOutcome(doc)

\* the parser run on the outcome of tokenize
parseTokens(lexed, maxDepth) ==
    IF ~lexed.ok
    THEN [ok |-> FALSE, value |-> Null, message |-> lexed.message,
          position |-> lexed.position]
    ELSE expectEof(lexed.tokens, parseDocument(lexed.tokens, maxDepth))

\* parse(text, options): [ok, value, message, position]
parse(text, opts) == parseTokens(tokenize(text, opts), opts.maxDepth)

----------------------------------------------------------------------------
(* parser.ts: parseFast and the class Reader *)

\* this.fail(msg): the position is the reader's position at the time of the
\* call
readerFail(message, P) ==
    [ok |-> FALSE, message |-> message, position |-> P, at |-> P, kind |-> "Eof",
     val |-> Null]

\* the reader at P with this.kind and this.val set
readerAt(P, kind, val) ==
    [ok |-> TRUE, message |-> "", position |-> P, at |-> P, kind |-> kind, val |-> val]

\* while (depth > 0 && this.pos + 1 < this.len) { ... }
\* if (depth !== 0) this.fail('Unclosed multi-line comment')
RECURSIVE reader_skipBlockComment(_, _, _)
reader_skipBlockComment(input, P, depth) ==
    IF depth > 0 /\ P.offset + 1 < Len(input)
    THEN LET x == peek(input, P)
             P1 == advance(input, P)
         IN  IF x = Ch.star /\ peek(input, P1) = Ch.slash
                 THEN reader_skipBlockComment(input, advance(input, P1), depth - 1)
             ELSE IF x = Ch.slash /\ peek(input, P1) = Ch.star
                 THEN reader_skipBlockComment(input, advance(input, P1), depth + 1)
             ELSE reader_skipBlockComment(input, P1, depth)
    ELSE IF depth # 0 THEN readerFail("Unclosed multi-line comment", P)
    ELSE readerAt(P, "Eof", Null)

RECURSIVE skipWs(_, _)
skipWs(input, P) ==
    LET c == peek(input, P)
    IN  IF P.offset >= Len(input) THEN readerAt(P, "Eof", Null)
        ELSE IF c \in {Ch.space, Ch.tab, Ch.cr, Ch.lf} THEN skipWs(input, advance(input, P))
        ELSE IF c = Ch.slash /\ peekAhead(input, P, 1) = Ch.slash
            THEN skipWs(input, skipLineComment(input, advance(input, advance(input, P))))
        ELSE IF c = Ch.slash /\ peekAhead(input, P, 1) = Ch.star
            THEN LET r == reader_skipBlockComment(input, advance(input, advance(input, P)), 1)
                 IN  IF r.ok THEN skipWs(input, r.at) ELSE r
        ELSE readerAt(P, "Eof", Null)

\* the four hex digits of \uXXXX: each is advance(), -1 at the end of input
RECURSIVE reader_readHex4(_, _, _, _)
reader_readHex4(input, P, i, acc) ==
    IF i = 4 THEN readerAt(P, "String", Num(acc))
    ELSE LET h == peek(input, P)
             P1 == advance(input, P)
         IN  IF h = -1 \/ ~IsHexDigit(h) THEN readerFail("Invalid \\u escape", P1)
             ELSE reader_readHex4(input, P1, i + 1, acc * 16 + HexValue(h))

\* the loop of readQuoted, after the opening quote
RECURSIVE readQuotedChars(_, _, _, _)
readQuotedChars(input, P, quote, buf) ==
    LET ch == peek(input, P)
        P1 == advance(input, P)
    IN  IF P.offset >= Len(input) THEN readerFail("Unclosed string", P)
        ELSE IF ch = quote THEN readerAt(P1, "String", Str(buf))
        ELSE IF ch = Ch.backslash
            THEN LET next == peek(input, P1)
                     P2 == advance(input, P1)
                 IN  IF next = -1 THEN readerFail("Unclosed string", P2)
                     ELSE IF next = quote
                         THEN readQuotedChars(input, P2, quote, Append(buf, quote))
                     ELSE IF next = Ch.backslash
                         THEN readQuotedChars(input, P2, quote, Append(buf, Ch.backslash))
                     ELSE IF next = Ch.slash
                         THEN readQuotedChars(input, P2, quote, Append(buf, Ch.slash))
                     ELSE IF next = Ch.b
                         THEN readQuotedChars(input, P2, quote, Append(buf, Ch.bs))
                     ELSE IF next = Ch.f
                         THEN readQuotedChars(input, P2, quote, Append(buf, Ch.ff))
                     ELSE IF next = Ch.n
                         THEN readQuotedChars(input, P2, quote, Append(buf, Ch.lf))
                     ELSE IF next = Ch.r
                         THEN readQuotedChars(input, P2, quote, Append(buf, Ch.cr))
                     ELSE IF next = Ch.t
                         THEN readQuotedChars(input, P2, quote, Append(buf, Ch.tab))
                     ELSE IF next = Ch.u
                         THEN LET h == reader_readHex4(input, P2, 0, 0)
                              IN  IF h.ok
                                  THEN readQuotedChars(input, h.at, quote,
                                                       Append(buf, h.val.n))
                                  ELSE h
                     ELSE readQuotedChars(input, P2, quote, Append(buf, next))
        ELSE IF ch >= 0 /\ ch <= 31 THEN readerFail("Control character in string", P1)
        ELSE readQuotedChars(input, P1, quote, Append(buf, ch))

readQuoted(input, P, quote) == readQuotedChars(input, advance(input, P), quote, <<>>)

\* while (this.peek() is a digit) this.advance()
RECURSIVE skipDigitRun(_, _)
skipDigitRun(input, P) ==
    IF peek(input, P) # -1 /\ IsDigit(peek(input, P))
    THEN skipDigitRun(input, advance(input, P))
    ELSE P

\* the index of the first e or E of raw, 0 when there is none
ExponentAt(raw) ==
    IF \E i \in DOMAIN raw : raw[i] \in {Ch.e, Ch.upperE}
    THEN CHOOSE i \in DOMAIN raw : /\ raw[i] \in {Ch.e, Ch.upperE}
                                   /\ \A j \in 1..(i - 1) : raw[j] \notin {Ch.e, Ch.upperE}
    ELSE 0

\* parseFloat(raw) of the text readNumber has gathered, an optional '-',
\* digits, an optional '.' and digits, an optional exponent mark, sign and
\* digits: the longest prefix that is a number is converted, so an exponent
\* without digits is left out, and a text without a digit in front of the
\* exponent is NaN
reader_parseFloat(raw) ==
    LET e == ExponentAt(raw)
        mantissa == IF e = 0 THEN raw ELSE SubSeq(raw, 1, e - 1)
        hasExponent == e # 0 /\ IsDigit(raw[Len(raw)]) /\ Len(raw) > e
        literal == IF hasExponent THEN raw ELSE mantissa
    IN  IF ~\E i \in DOMAIN mantissa : IsDigit(mantissa[i])
            THEN [nan |-> TRUE, val |-> Null]
        ELSE IF ~hasExponent /\ ~\E i \in DOMAIN mantissa : mantissa[i] = Ch.dot
            THEN [nan |-> FALSE, val |-> Num(parseInt(mantissa))]
        ELSE [nan |-> FALSE, val |-> parseFloat(literal)]

\* the end of readNumber: raw = input.slice(start, pos), converted
reader_number(input, start, P, isFloat) ==
    LET raw == SubSeq(input, start.offset + 1, P.offset)
    IN  IF isFloat
        THEN IF reader_parseFloat(raw).nan THEN readerFail("Invalid number", P)
             ELSE readerAt(P, "Float", reader_parseFloat(raw).val)
        ELSE IF ~\E i \in DOMAIN raw : IsDigit(raw[i]) THEN readerFail("Invalid number", P)
        ELSE readerAt(P, "Integer", Num(parseInt(raw)))

\* readNumber after the integer part: fraction and exponent, none of them
\* required to hold a digit
reader_numberTail(input, start, P, isFloat) ==
    LET hasDot == peek(input, P) = Ch.dot
        afterFrac == IF hasDot THEN skipDigitRun(input, advance(input, P)) ELSE P
        hasExp == peek(input, afterFrac) \in {Ch.e, Ch.upperE}
        afterE == advance(input, afterFrac)
        afterSign == IF peek(input, afterE) \in {Ch.plus, Ch.minus}
                     THEN advance(input, afterE) ELSE afterE
        end == IF hasExp THEN skipDigitRun(input, afterSign) ELSE afterFrac
    IN  reader_number(input, start, end, isFloat \/ hasDot \/ hasExp)

reader_readNumber(input, P) ==
    LET P1 == IF peek(input, P) = Ch.minus THEN advance(input, P) ELSE P
        P2 == advance(input, P1)
        n == peek(input, P2)
    IN  IF peek(input, P1) = Ch.zero
        THEN IF n >= Ch.one /\ n <= Ch.nine
             THEN readerFail("Invalid number: leading zero", P2)
             ELSE reader_numberTail(input, P, P2, n \in {Ch.dot, Ch.e, Ch.upperE})
        ELSE reader_numberTail(input, P, skipDigitRun(input, P1), FALSE)

readIdentifier(input, P) ==
    LET r == readIdentifierLoop(input, P, <<>>)
    IN  IF r.raw = KwTrue THEN readerAt(r.at, "True", Null)
        ELSE IF r.raw = KwFalse THEN readerAt(r.at, "False", Null)
        ELSE IF r.raw = KwNull THEN readerAt(r.at, "Null", Null)
        ELSE readerAt(r.at, "Identifier", Str(r.raw))

\* readToken after its skipWs left the reader at P
readTokenAt(input, P) ==
    LET c == peek(input, P)
        P1 == advance(input, P)
    IN  IF P.offset >= Len(input) THEN readerAt(P, "Eof", Null)
        ELSE IF c = Ch.lbrace THEN readerAt(P1, "LBrace", Null)
        ELSE IF c = Ch.rbrace THEN readerAt(P1, "RBrace", Null)
        ELSE IF c = Ch.lbracket THEN readerAt(P1, "LBracket", Null)
        ELSE IF c = Ch.rbracket THEN readerAt(P1, "RBracket", Null)
        ELSE IF c = Ch.colon THEN readerAt(P1, "Colon", Null)
        ELSE IF c = Ch.comma THEN readerAt(P1, "Comma", Null)
        ELSE IF c = Ch.dquote \/ c = Ch.squote THEN readQuoted(input, P, c)
        ELSE IF c = Ch.minus \/ IsDigit(c) THEN reader_readNumber(input, P)
        ELSE IF IsLetter(c) \/ c = Ch.underscore THEN readIdentifier(input, P)
        ELSE readerFail("Unexpected character", P)

\* readToken(): the reader after it, with this.kind and this.val, or the
\* error thrown
readTokenAfter(input, sk) == IF sk.ok THEN readTokenAt(input, sk.at) ELSE sk

readToken(input, P) == readTokenAfter(input, skipWs(input, P))

\* a parse method that threw at the reader rd
readerThrow(rd, message) ==
    [ok |-> FALSE, value |-> Null, rd |-> rd, message |-> message, position |-> rd.at]

\* a parse method that returned val, the reader left at rd; when rd is a
\* failed readToken its error is what the method throws
readerReturn(rd, val) ==
    IF rd.ok
    THEN [ok |-> TRUE, value |-> val, rd |-> rd, message |-> "", position |-> pos(0, 0, 0)]
    ELSE [ok |-> FALSE, value |-> Null, rd |-> rd, message |-> rd.message,
          position |-> rd.position]

\* if (this.kind === K.Colon) this.readToken(), and the same for K.Comma
readerSkip(input, rd, kind) ==
    IF rd.ok /\ rd.kind = kind THEN readToken(input, rd.at) ELSE rd

RECURSIVE reader_parseValue(_, _, _, _)
RECURSIVE reader_parseObjectLoop(_, _, _, _, _)
RECURSIVE reader_parseObjectPair(_, _, _, _, _, _)
RECURSIVE reader_parseArrayLoop(_, _, _, _, _)
RECURSIVE reader_parseArrayItem(_, _, _, _, _)
RECURSIVE reader_valueAfterKey(_, _, _, _)

\* const value = this.parseValue(depth + 1), the reader rd after the key and
\* the colon that may follow it
reader_valueAfterKey(input, rd, depth, maxDepth) ==
    IF ~rd.ok THEN readerReturn(rd, Null)
    ELSE reader_parseValue(input, rd, depth + 1, maxDepth)

\* the loop of parseObject with the reader at rd, a readToken just made
reader_parseObjectLoop(input, rd, depth, maxDepth, obj) ==
    IF ~rd.ok THEN readerReturn(rd, Null)
    ELSE IF rd.kind = "RBrace" THEN readerReturn(readToken(input, rd.at), obj)
    ELSE IF rd.kind \notin {"Identifier", "String"} THEN readerThrow(rd, "Expected key")
    ELSE reader_parseObjectPair(input, rd.val.s,
             reader_valueAfterKey(input, readerSkip(input, readToken(input, rd.at), "Colon"),
                                  depth, maxDepth),
             depth, maxDepth, obj)

\* the rest of one round of the loop, the value v of the pair parsed
reader_parseObjectPair(input, key, v, depth, maxDepth, obj) ==
    IF ~v.ok THEN v
    ELSE IF hasOwnProperty(obj, key) THEN readerThrow(v.rd, "Duplicate key")
    ELSE reader_parseObjectLoop(input, readerSkip(input, v.rd, "Comma"), depth, maxDepth,
                                setProperty(obj, key, v.value))

reader_parseArrayLoop(input, rd, depth, maxDepth, arr) ==
    IF ~rd.ok THEN readerReturn(rd, Null)
    ELSE IF rd.kind = "RBracket" THEN readerReturn(readToken(input, rd.at), Arr(arr))
    ELSE reader_parseArrayItem(input, reader_parseValue(input, rd, depth + 1, maxDepth),
                               depth, maxDepth, arr)

reader_parseArrayItem(input, v, depth, maxDepth, arr) ==
    IF ~v.ok THEN v
    ELSE reader_parseArrayLoop(input, readerSkip(input, v.rd, "Comma"), depth, maxDepth,
                               Append(arr, v.value))

reader_parseValue(input, rd, depth, maxDepth) ==
    IF depth > maxDepth THEN readerThrow(rd, "Maximum nesting depth exceeded")
    ELSE IF rd.kind = "LBrace"
        THEN reader_parseObjectLoop(input, readToken(input, rd.at), depth, maxDepth,
                                    Obj(<<>>, <<>>))
    ELSE IF rd.kind = "LBracket"
        THEN reader_parseArrayLoop(input, readToken(input, rd.at), depth, maxDepth, <<>>)
    ELSE IF rd.kind \in {"String", "Identifier", "Integer", "Float"}
        THEN readerReturn(readToken(input, rd.at), rd.val)
    ELSE IF rd.kind = "True" THEN readerReturn(readToken(input, rd.at), Bool(TRUE))
    ELSE IF rd.kind = "False" THEN readerReturn(readToken(input, rd.at), Bool(FALSE))
    ELSE IF rd.kind = "Null" THEN readerReturn(readToken(input, rd.at), Null)
    ELSE readerThrow(rd, "Unexpected token")

\* while (kind is Identifier or String) { key, optional colon, value,
\* duplicate check }
RECURSIVE reader_parseRootObject(_, _, _, _, _)
RECURSIVE reader_parseRootPair(_, _, _, _, _, _)
reader_parseRootObject(input, rd, depth, maxDepth, obj) ==
    IF ~rd.ok THEN readerReturn(rd, Null)
    ELSE IF rd.kind \notin {"Identifier", "String"} THEN readerReturn(rd, obj)
    ELSE reader_parseRootPair(input, rd.val.s,
             reader_valueAfterKey(input, readerSkip(input, readToken(input, rd.at), "Colon"),
                                  depth, maxDepth),
             depth, maxDepth, obj)

reader_parseRootPair(input, key, v, depth, maxDepth, obj) ==
    IF ~v.ok THEN v
    ELSE IF hasOwnProperty(obj, key) THEN readerThrow(v.rd, "Duplicate key")
    ELSE reader_parseRootObject(input, v.rd, depth, maxDepth,
                                setProperty(obj, key, v.value))

\* parseDocument(): the token after a first Identifier or String is read to
\* set hasMore, and the reader is put back
reader_parseKeyed(input, rd, ahead, maxDepth) ==
    IF ~ahead.ok THEN readerReturn(ahead, Null)
    ELSE IF ahead.kind # "Eof"
        THEN reader_parseRootObject(input, rd, 0, maxDepth, Obj(<<>>, <<>>))
    ELSE reader_parseValue(input, rd, 0, maxDepth)

reader_parseDocument(input, rd, maxDepth) ==
    IF rd.kind \in {"Identifier", "String"}
    THEN reader_parseKeyed(input, rd, readToken(input, rd.at), maxDepth)
    ELSE reader_parseValue(input, rd, 0, maxDepth)

\* r.expectEof() after r.parseDocument() returned or threw doc
reader_expectEof(doc) ==
    IF doc.ok /\ doc.rd.kind # "Eof"
    THEN parseOutcome(readerThrow(doc.rd, "Expected end of input"))
    ELSE parseOutcome(doc)

\* new Reader(text, maxDepth): skipWs() and readToken()
newReader(input) == readTokenAfter(input, skipWs(input, pos(1, 1, 0)))

\* r.parseDocument() and r.expectEof() with the reader r the constructor
\* made, or the error the constructor threw
reader_run(input, r, maxDepth) ==
    IF ~r.ok
    THEN [ok |-> FALSE, value |-> Null, message |-> r.message, position |-> r.position]
    ELSE reader_expectEof(reader_parseDocument(input, r, maxDepth))

\* parseFast(text, options): [ok, value, message, position]
parseFast(text, opts) ==
    IF Len(text) > opts.maxInputLength
    THEN [ok |-> FALSE, value |-> Null, message |-> "Input exceeds maximum length",
          position |-> pos(1, 1, 0)]
    ELSE reader_run(text, newReader(text), opts.maxDepth)

----------------------------------------------------------------------------
(* stringify *)

ToLower(c) == IF c >= Ch.upperA /\ c <= Ch.upperZ THEN c + 32 ELSE c

toLowerCase(s) == [i \in DOMAIN s |-> ToLower(s[i])]

needsQuote(s) ==
    IF Len(s) = 0 THEN TRUE
    ELSE IF ~IsWordChar(s[1]) THEN TRUE
    ELSE IF \E i \in 2..Len(s) : ~(IsWordChar(s[i]) \/ s[i] = Ch.minus) THEN TRUE
    ELSE toLowerCase(s) \in {KwTrue, KwFalse, KwNull}

\* s.replace(/c/g, replacement) for a single character c
RECURSIVE replaceChar(_, _, _)
replaceChar(s, c, replacement) ==
    IF s = <<>> THEN <<>>
    ELSE (IF s[1] = c THEN replacement ELSE <<s[1]>>) \o replaceChar(Tail(s), c, replacement)

\* the regular expression \b matches at position i (between s[i] and
\* s[i+1], 0 <= i <= Len(s)) when exactly one of the two is a word character
isWordBoundary(s, i) ==
    (i >= 1 /\ IsWordChar(s[i])) # (i < Len(s) /\ IsWordChar(s[i + 1]))

\* s.replace(/\b/g, replacement): the replacement is inserted at every word
\* boundary of s
RECURSIVE replaceWordBoundaries(_, _, _)
replaceWordBoundaries(s, i, replacement) ==
    IF i > Len(s) THEN <<>>
    ELSE (IF isWordBoundary(s, i) THEN replacement ELSE <<>>)
         \o (IF i < Len(s) THEN <<s[i + 1]>> ELSE <<>>)
         \o replaceWordBoundaries(s, i + 1, replacement)

escapeDouble(s) ==
    LET s1 == replaceChar(s, Ch.backslash, <<Ch.backslash, Ch.backslash>>)
        s2 == replaceChar(s1, Ch.dquote, <<Ch.backslash, Ch.dquote>>)
        s3 == replaceWordBoundaries(s2, 0, <<Ch.backslash, Ch.b>>)
        s4 == replaceChar(s3, Ch.ff, <<Ch.backslash, Ch.f>>)
        s5 == replaceChar(s4, Ch.lf, <<Ch.backslash, Ch.n>>)
        s6 == replaceChar(s5, Ch.cr, <<Ch.backslash, Ch.r>>)
    IN  replaceChar(s6, Ch.tab, <<Ch.backslash, Ch.t>>)

quoteKey(key) ==
    IF needsQuote(key) THEN <<Ch.dquote>> \o escapeDouble(key) \o <<Ch.dquote>> ELSE key

quoteValueString(s) ==
    IF needsQuote(s) THEN <<Ch.dquote>> \o escapeDouble(s) \o <<Ch.dquote>> ELSE s

\* String(n) of a non-negative integer
RECURSIVE DigitsOf(_)
DigitsOf(n) ==
    IF n < 10 THEN <<Ch.zero + n>> ELSE Append(DigitsOf(n \div 10), Ch.zero + (n % 10))

\* the model's numbers are safe integers: String(n)
writeNumber(n) == IF n < 0 THEN <<Ch.minus>> \o DigitsOf(-n) ELSE DigitsOf(n)

\* indent.repeat(count)
RECURSIVE repeat(_, _)
repeat(s, count) == IF count = 0 THEN <<>> ELSE s \o repeat(s, count - 1)

\* parts.join(sep)
RECURSIVE join(_, _)
join(parts, sep) ==
    IF parts = <<>> THEN <<>>
    ELSE IF Len(parts) = 1 THEN parts[1]
    ELSE parts[1] \o sep \o join(Tail(parts), sep)

RECURSIVE stringifyValue(_, _, _, _)
stringifyValue(val, indent, newline, level) ==
    LET sep == IF indent # <<>> THEN newline \o repeat(indent, level + 1) ELSE <<Ch.space>>
    IN  IF val.k = "null" THEN KwNull
        ELSE IF val.k = "bool" THEN (IF val.n = 1 THEN KwTrue ELSE KwFalse)
        ELSE IF val.k = "num" THEN writeNumber(val.n)
        ELSE IF val.k = "str" THEN quoteValueString(val.s)
        ELSE IF val.k = "arr"
            THEN IF val.items = <<>> THEN <<Ch.lbracket, Ch.rbracket>>
                 ELSE <<Ch.lbracket>> \o sep
                      \o join([i \in DOMAIN val.items |->
                                  stringifyValue(val.items[i], indent, newline, level + 1)],
                              sep)
                      \o <<Ch.space, Ch.rbracket>>
        ELSE IF val.keys = <<>> THEN <<Ch.lbrace, Ch.rbrace>>
        ELSE <<Ch.lbrace>> \o sep
             \o join([i \in DOMAIN val.keys |->
                         quoteKey(val.keys[i]) \o <<Ch.colon, Ch.space>>
                         \o stringifyValue(val.items[i], indent, newline, level + 1)],
                     sep)
             \o <<Ch.space, Ch.rbrace>>

\* the characters String.prototype.trim removes that the model's texts
\* can hold
IsTrimmed(c) == c \in {Ch.tab, Ch.lf, 11, Ch.ff, Ch.cr, Ch.space, 160, 65279}

RECURSIVE trimStart(_)
trimStart(s) == IF s # <<>> /\ IsTrimmed(s[1]) THEN trimStart(Tail(s)) ELSE s

RECURSIVE trimEnd(_)
trimEnd(s) ==
    IF s # <<>> /\ IsTrimmed(s[Len(s)]) THEN trimEnd(SubSeq(s, 1, Len(s) - 1)) ELSE s

trim(s) == trimEnd(trimStart(s))

\* stringify(value, options): indent defaults to '', newline to "\n"
stringify(val, opts) == trim(stringifyValue(val, opts.indent, opts.newline, 0))

----------------------------------------------------------------------------
(* decode-async.ts: createDecoderPool *)

\* largest poolSize a pool is created with
MaxPool == 3

\* largest number of calls of pool.decode in a run
MaxCalls == 4

\* what a worker posts back for a job: {id, value}, {id, error} or neither field
ReplyKinds == {"value", "error", "empty"}

\* the state before any pool exists
NoPool == [poolSize |-> 0, workers |-> 0, nextIndex |-> 0, nextId |-> 0,
           destroyed |-> FALSE, pendingByWorker |-> <<>>, inbox |-> <<>>,
           replies |-> <<>>, running |-> <<>>, calls |-> <<>>, posted |-> <<>>]

\* createDecoderPool(options): poolSize = Math.max(1, options.poolSize ?? 1);
\* every worker starts with an empty map of pending entries.  `workers` is
\* workers.length, `inbox` the jobs posted to a worker it has not taken yet,
\* `replies` the messages of a worker not yet handed to its 'message'
\* listener, `calls` the promises decode has returned, `posted` the log of
\* worker.postMessage calls.
createDecoderPool(poolSizeOption) ==
    LET poolSize == IF poolSizeOption > 1 THEN poolSizeOption ELSE 1
    IN  [poolSize |-> poolSize, workers |-> poolSize, nextIndex |-> 0, nextId |-> 0,
         destroyed |-> FALSE,
         pendingByWorker |-> [w \in 1..poolSize |-> {}],
         inbox |-> [w \in 1..poolSize |-> <<>>],
         replies |-> [w \in 1..poolSize |-> <<>>],
         running |-> [w \in 1..poolSize |-> TRUE],
         calls |-> <<>>, posted |-> <<>>]

\* a pool that hands every job to its first worker
pool_worker_first(nextIndex, length) == 1

\* workers[nextIndex % workers.length], workers counted from 1
pool_worker(nextIndex, length) == (nextIndex % length) + 1

\* the promise of the call that was given this id
CallOf(p, id) == CHOOSE i \in 1..Len(p.calls) : p.calls[i].id = id

\* entry.resolve / entry.reject: settling a settled promise has no effect
Settle(p, id, state, message) ==
    LET i == CallOf(p, id)
        c == p.calls[i]
    IN  [p EXCEPT !.calls[i] =
            IF c.state = "pending"
            THEN [c EXCEPT !.state = state, !.message = message, !.settles = 1]
            ELSE [c EXCEPT !.settles = c.settles + 1]]

\* pool.decode(buffer, options)
pool_decode(p) ==
    IF p.destroyed
    THEN [p EXCEPT !.calls = Append(p.calls,
              [id |-> -1, worker |-> 0, state |-> "rejected",
               message |-> "Decoder pool has been destroyed", settles |-> 1])]
    ELSE LET id == p.nextId
             worker == pool_worker(p.nextIndex, p.workers)
         IN  [p EXCEPT !.nextId = id + 1,
                       !.nextIndex = p.nextIndex + 1,
                       !.pendingByWorker[worker] = p.pendingByWorker[worker] \cup {id},
                       !.inbox[worker] = Append(p.inbox[worker], id),
                       !.posted = Append(p.posted, [worker |-> worker, id |-> id]),
                       !.calls = Append(p.calls,
                           [id |-> id, worker |-> worker, state |-> "pending",
                            message |-> "", settles |-> 0])]

\* the 'message' listener of worker w, handed msg = [id, kind]
pool_onMessage(p, w, msg) ==
    IF msg.id \notin p.pendingByWorker[w]
    THEN p
    ELSE LET q == [p EXCEPT !.pendingByWorker[w] = p.pendingByWorker[w] \ {msg.id}]
         IN  IF msg.kind = "error" THEN Settle(q, msg.id, "rejected", "worker error")
             ELSE IF msg.kind = "value" THEN Settle(q, msg.id, "resolved", "")
             ELSE Settle(q, msg.id, "rejected", "Worker did not return value")

\* pool.destroy() of a pool not yet destroyed: every worker is terminated
\* and the jobs it had not taken are gone with it; workers.length = 0
pool_destroy(p) ==
    [p EXCEPT !.destroyed = TRUE,
              !.running = [w \in 1..p.poolSize |-> FALSE],
              !.inbox = [w \in 1..p.poolSize |-> <<>>],
              !.workers = 0]

----------------------------------------------------------------------------
(* Inputs: the Values and options a caller may pass *)

DEFAULT_MAX_DEPTH == 256

DEFAULT_MAX_DICT == 65536

DEFAULT_MAX_STRING == 1000000

DEFAULT_MAX_INPUT_LENGTH == 1000000

DefaultOptions ==
    [maxDepth |-> DEFAULT_MAX_DEPTH, maxDictionarySize |-> DEFAULT_MAX_DICT,
     maxStringLength |-> DEFAULT_MAX_STRING, maxInputLength |-> DEFAULT_MAX_INPUT_LENGTH,
     indent |-> <<>>, newline |-> <<10>>]

OptionChoices ==
    {DefaultOptions} \cup
    {[DefaultOptions EXCEPT !.maxDepth = n, !.maxDictionarySize = n,
                            !.maxStringLength = n] : n \in 0..MaxLimit}

\* scalars met inside containers: null, a negative integer, a string with a
\* two-byte character (U+00E9)
InnerLeaves == {Null, Num(-2), Str(<<233>>)}

\* keys of generated objects: "a" and "aé" (one a proper prefix of the
\* other, the longer with a two-byte character)
KeyPool == {<<97>>, <<97, 233>>}

KeySeqs(c) == {ks \in [1..c -> KeyPool] : \A i, j \in 1..c : ks[i] = ks[j] => i = j}

\* Values with exactly n nodes, and sequences of Values with m nodes in all
RECURSIVE Sized(_)
RECURSIVE Lists(_)
Sized(n) ==
    IF n = 1 THEN InnerLeaves \cup {Arr(<<>>), Obj(<<>>, <<>>)}
    ELSE {Arr(vs) : vs \in Lists(n - 1)} \cup
         UNION {{Obj(ks, vs) : ks \in KeySeqs(Len(vs))} : vs \in Lists(n - 1)}

Lists(m) ==
    IF m = 0 THEN {<<>>}
    ELSE UNION {{<<x>> \o rest : x \in Sized(i), rest \in Lists(m - i)} : i \in 1..m}

Trees == UNION {Sized(n) : n \in 1..MaxNodes}

\* further Values: booleans, integers of either sign and of more than one
\* byte, the empty string, a string with a space, strings and keys that
\* begin with U+FEFF, the key "__proto__"
SpecialValues ==
    {Bool(TRUE), Bool(FALSE), Num(0), Num(1), Num(-1), Num(300), Num(-70000),
     Str(<<>>), Str(<<97, 32, 98>>), Str(<<65279>>), Str(<<65279, 97>>),
     Obj(<<<<>>>>, <<Num(1)>>),
     Obj(<<<<233>>, <<98>>, <<97, 98>>>>, <<Bool(TRUE), Str(<<98>>), Null>>),
     Obj(<<<<65279, 97>>>>, <<Null>>),
     Obj(<<<<97, 233>>, <<97>>>>, <<Null, Str(<<233>>)>>),
     Obj(<<PROTO>>, <<Num(1)>>)}

CodecValues == Trees \cup SpecialValues

\* the Values whose encodings are tampered with
TamperValues == UNION {Sized(n) : n \in 1..(MaxNodes - 2)} \cup SpecialValues

\* all orderings of the entries of the objects of v (at every level)
Perms(n) == {p \in [1..n -> 1..n] : \A i, j \in 1..n : p[i] = p[j] => i = j}

RECURSIVE Reorderings(_)
RECURSIVE ReorderingsOfItems(_)
Reorderings(v) ==
    IF v.k = "arr" THEN {Arr(vs) : vs \in ReorderingsOfItems(v.items)}
    ELSE IF v.k = "obj"
        THEN UNION {{Obj([i \in DOMAIN v.keys |-> v.keys[p[i]]],
                         [i \in DOMAIN v.keys |-> vs[p[i]]]) : p \in Perms(Len(v.keys))}
                    : vs \in ReorderingsOfItems(v.items)}
    ELSE {v}

ReorderingsOfItems(vs) ==
    IF vs = <<>> THEN {<<>>}
    ELSE {<<x>> \o rest : x \in Reorderings(Head(vs)), rest \in ReorderingsOfItems(Tail(vs))}

\* Values handed to stringify: the generated trees, and strings and keys
\* that look like numbers or keywords, hold spaces, quotes, backslashes or
\* control characters, or start with a digit
TextSpecials ==
    {Str(<<97, 32, 98>>), Str(<<120>>), Str(<<97, 45, 98>>), Str(<<49>>), Str(<<49, 45, 50>>),
     Str(<<116, 114, 117, 101>>), Str(<<84, 114, 117, 101>>), Str(<<32>>), Str(<<45>>), Str(<<45, 49>>),
     Str(<<Ch.dquote>>), Str(<<Ch.backslash>>), Str(<<Ch.squote>>),
     Str(<<Ch.lf>>), Str(<<Ch.tab>>), Str(<<Ch.bs>>), Str(<<1>>), Str(<<233, Ch.lf, 233>>),
     Obj(<<<<97, 32, 98>>>>, <<Num(1)>>), Obj(<<<<49>>>>, <<Num(1)>>),
     Obj(<<<<Ch.space>>>>, <<Num(1)>>), Obj(<<<<110, 117, 108, 108>>>>, <<Null>>),
     Obj(<<<<107>>, <<95, 107, 45, 50>>>>, <<Arr(<<Num(1), Str(<<120>>)>>), Obj(<<<<107>>>>, <<Str(<<>>)>>)>>)}

\* longest string of QuotingStrings made of QuotingChars
MaxStr == 2

\* a  Z  1  _  -  space  "  \  BS  LF
QuotingChars == {97, 90, 49, 95, 45, 32, 34, 92, 8, 10}

\* further strings: true TRUE True fAlse null Null nul truex a1_-Z
\* FF CR TAB U+007F U+00E9 and a\b with a quote after it
KeywordLike ==
    {<<116, 114, 117, 101>>, <<84, 82, 85, 69>>, <<84, 114, 117, 101>>,
     <<102, 65, 108, 115, 101>>, <<110, 117, 108, 108>>, <<78, 117, 108, 108>>,
     <<110, 117, 108>>, <<116, 114, 117, 101, 120>>, <<97, 49, 95, 45, 90>>,
     <<12>>, <<13>>, <<9>>, <<127>>, <<233>>, <<97, 92, 98, 34>>}

\* the strings of up to n characters out of A
RECURSIVE StringsOver(_, _)
StringsOver(A, n) ==
    IF n = 0 THEN {<<>>}
    ELSE LET S == StringsOver(A, n - 1)
         IN  S \cup {Append(t, c) : t \in {x \in S : Len(x) = n - 1}, c \in A}

QuotingStrings == StringsOver(QuotingChars, MaxStr) \cup KeywordLike

\* each of them as a string value and as the one key of an object
QuotingValues ==
    {Str(t) : t \in QuotingStrings} \cup {Obj(<<t>>, <<Null>>) : t \in QuotingStrings}

TextValues == TamperValues \cup TextSpecials \cup QuotingValues

\* options of the text calls: compact or pretty output, the parse limits at
\* their defaults
TextOptionChoices ==
    {[DefaultOptions EXCEPT !.indent = ind] : ind \in {<<>>, <<Ch.space, Ch.space>>}}

\* a key as it is written in a text: bare, in double or in single quotes
WriteKey(name, form) ==
    IF form = "identifier" THEN name
    ELSE IF form = "double" THEN <<Ch.dquote>> \o name \o <<Ch.dquote>>
    ELSE <<Ch.squote>> \o name \o <<Ch.squote>>

KeyForms == {"identifier", "double", "single"}

\* the key written twice, and a key that occurs nowhere else
RepeatedKeys == {<<97>>, PROTO}

FreshKey == <<113>>

\* where the object with the repeated key stands: the implicit root, a
\* braced root, the value of a pair, an array item, after a pair on
\* earlier lines
Contexts ==
    {[pre |-> <<>>, post |-> <<>>],
     [pre |-> <<123>>, post |-> <<125>>],
     [pre |-> <<120, 58, 32, 123>>, post |-> <<125>>],
     [pre |-> <<91, 123>>, post |-> <<125, 93>>],
     [pre |-> <<123>> \o <<Ch.lf>> \o <<32, 32, 122, 32, 48>> \o <<Ch.lf>> \o <<32, 32>>, post |-> <<125>>]}

\* between a key and its value: a colon or only a space
KeyValueJoins == {<<58, 32>>, <<32>>}

\* between two pairs
PairSeparators == {<<32>>, <<44, 32>>, <<Ch.lf>>, <<Ch.comma, Ch.lf, Ch.space>>}

FirstValues == {<<49>>, <<91, 50, 93>>}

SecondValues == {<<50>>, <<123, 98, 58, 32, 51, 125>>}

\* texts in which one object holds the same key twice: the text up to the
\* second occurrence, the key as written there, the rest, and the key FreshKey
\* written in the same form
DuplicateDocs ==
    {[kind |-> "duplicate",
      before |-> c.pre \o WriteKey(name, f1) \o kv \o v1 \o sep,
      key |-> WriteKey(name, f2),
      after |-> kv \o v2 \o c.post,
      fresh |-> WriteKey(FreshKey, f2)] :
        c \in Contexts, name \in RepeatedKeys, f1 \in KeyForms, f2 \in KeyForms,
        kv \in KeyValueJoins, sep \in PairSeparators, v1 \in FirstValues,
        v2 \in SecondValues}

\* other texts, most of them with an error: "ab  @  {a: 01}  /* x  [1 2
\* a: 1, b: 2  {a: 1, b: [true null]}  x  "\q"  and the empty text
PlainTexts ==
    {<<34, 97, 98>>,
     <<64>>,
     <<123, 97, 58, 32, 48, 49, 125>>,
     <<47, 42, 32, 120>>,
     <<91, 49, 32, 50>>,
     <<97, 58, 32, 49, 44, 32, 98, 58, 32, 50>>,
     <<123, 97, 58, 32, 49, 44, 32, 98, 58, 32, 91, 116, 114, 117, 101, 32, 110, 117,
       108, 108, 93, 125>>,
     <<120>>,
     <<34, 92, 113, 34>>,
     <<>>}

PlainDocs ==
    {[kind |-> "plain", before |-> t, key |-> <<>>, after |-> <<>>, fresh |-> <<>>] :
        t \in PlainTexts}

\* texts that begin a token the lexer cannot finish:
\*   "ab   'a   "a\q"   "a\   "\u12   "\uzz00"   "a<TAB>b"   "a<LF>b"
\*   01   -07   -x   -   -.   1e   1e+   1.5ex   /* x   /* /* x */   @   .5
BadTokens ==
    {<<34, 97, 98>>, <<39, 97>>, <<34, 97, 92, 113, 34>>, <<34, 97, 92>>,
     <<34, 92, 117, 49, 50>>, <<34, 92, 117, 122, 122, 48, 48, 34>>,
     <<34, 97, 9, 98, 34>>, <<34, 97, 10, 98, 34>>,
     <<48, 49>>, <<45, 48, 55>>, <<45, 120>>, <<45>>, <<45, 46>>, <<49, 101>>,
     <<49, 101, 43>>, <<49, 46, 53, 101, 120>>,
     <<47, 42, 32, 120>>, <<47, 42, 32, 47, 42, 32, 120, 32, 42, 47>>,
     <<64>>, <<46, 53>>}

\* what is written before such a token: nothing, a: and a space, [1 with a
\* line break and two spaces, a line comment, a block comment and a space
TokenPrefixes ==
    {<<>>, <<97, 58, 32>>, <<91, 49, 10, 32, 32>>, <<47, 47, 32, 99, 10>>,
     <<47, 42, 32, 99, 32, 42, 47, 32>>}

\* and after it: nothing, or a space and 1
TokenSuffixes == {<<>>, <<32, 49>>}

\* key is the token that cannot be lexed; it starts at offset Len(before)
LexicalDocs ==
    {[kind |-> "lexical", before |-> b, key |-> t, after |-> a, fresh |-> <<>>] :
        b \in TokenPrefixes, t \in BadTokens, a \in TokenSuffixes}

\* longest text of NumberTexts made of NumberChars
MaxNumberLen == 4

\* - 0 1 . e
NumberChars == {45, 48, 49, 46, 101}

\* further texts: -07  1e+5  1E5  1.5e-3  0.5  12  1.50  100  1e-
MoreNumberTexts ==
    {<<45, 48, 55>>, <<49, 101, 43, 53>>, <<49, 69, 53>>, <<49, 46, 53, 101, 45, 51>>,
     <<48, 46, 53>>, <<49, 50>>, <<49, 46, 53, 48>>, <<49, 48, 48>>, <<49, 101, 45>>}

\* texts written where a number is meant
NumberTexts == (StringsOver(NumberChars, MaxNumberLen) \ {<<>>}) \cup MoreNumberTexts

\* key is such a text, alone in the document or alone in an array
NumberDocs ==
    {[kind |-> "number", before |-> <<>>, key |-> t, after |-> <<>>, fresh |-> <<>>] :
        t \in NumberTexts} \cup
    {[kind |-> "number", before |-> <<Ch.lbracket>>, key |-> t, after |-> <<Ch.rbracket>>,
      fresh |-> <<>>] : t \in NumberTexts}

\* longest run of RootWords in a generated document
MaxWords == 3

\* a  "b"  1  true  [  ]  {  }  :  ,
RootWords ==
    {<<97>>, <<34, 98, 34>>, <<49>>, KwTrue, <<Ch.lbracket>>, <<Ch.rbracket>>,
     <<Ch.lbrace>>, <<Ch.rbrace>>, <<Ch.colon>>, <<Ch.comma>>}

\* name: "my-app" version: 1 enabled: true
ExampleText ==
    <<110, 97, 109, 101, 58, 32, 34, 109, 121, 45, 97, 112, 112, 34, 32,
      118, 101, 114, 115, 105, 111, 110, 58, 32, 49, 32,
      101, 110, 97, 98, 108, 101, 100, 58, 32, 116, 114, 117, 101>>

\* further documents: the example, a 1 b 2, a: [1] b: {c: d}, a line
\* comment before x, 'y' after a block comment, a comment alone, spaces alone
MoreRootTexts ==
    {ExampleText,
     <<97, 32, 49, 32, 98, 32, 50>>,
     <<97, 58, 32, 91, 49, 93, 32, 98, 58, 32, 123, 99, 58, 32, 100, 125>>,
     <<47, 47, 32, 99, 10, 120>>,
     <<47, 42, 32, 99, 32, 42, 47, 32, 39, 121, 39>>,
     <<47, 47, 32, 99>>,
     <<32, 10>>}

\* the running texts of up to n words, one space between two words
RECURSIVE WordRuns(_)
WordRuns(n) ==
    IF n = 0 THEN {<<>>}
    ELSE RootWords \cup {t \o <<Ch.space>> \o w : t \in WordRuns(n - 1) \ {<<>>}, w \in RootWords}

RootDocs ==
    {[kind |-> "root", before |-> t, key |-> <<>>, after |-> <<>>, fresh |-> <<>>] :
        t \in WordRuns(MaxWords) \cup MoreRootTexts}

\* values written as text: 1  "s"  x  true  [1]  {k: 1}
SeparatedValues ==
    {<<49>>, <<34, 115, 34>>, <<120>>, KwTrue, <<91, 49, 93>>,
     <<123, 107, 58, 32, 49, 125>>}

\* where two adjacent elements or pairs are written, as the texts before
\* the first, between the two (after the place of the comma) and after the
\* second: [v v]   {a: v b: v}   a: v b: v   r: [v v]   r: {a: v b: v}
PairPlaces ==
    {[pre |-> <<91>>, mid |-> <<32>>, post |-> <<93>>],
     [pre |-> <<123, 97, 58, 32>>, mid |-> <<32, 98, 58, 32>>, post |-> <<125>>],
     [pre |-> <<97, 58, 32>>, mid |-> <<32, 98, 58, 32>>, post |-> <<>>],
     [pre |-> <<114, 58, 32, 91>>, mid |-> <<32>>, post |-> <<93>>],
     [pre |-> <<114, 58, 32, 123, 97, 58, 32>>, mid |-> <<32, 98, 58, 32>>,
      post |-> <<125>>]}

\* where a key and its value are written: {k v}   k v   k v b: 2   [{k v}]
KeyPlaces ==
    {[pre |-> <<123>>, post |-> <<125>>],
     [pre |-> <<>>, post |-> <<>>],
     [pre |-> <<>>, post |-> <<32, 98, 58, 32, 50>>],
     [pre |-> <<91, 123>>, post |-> <<125, 93>>]}

\* a and "a"
SeparatedKeys == {<<97>>, <<34, 97, 34>>}

\* documents with a place for one comma or one colon: key is what is
\* written there (the separator or nothing), fresh is the other choice
CommaDocs ==
    {[kind |-> "comma", before |-> c.pre \o v1, key |-> sep[1],
      after |-> c.mid \o v2 \o c.post, fresh |-> sep[2]] :
        c \in PairPlaces, v1 \in SeparatedValues, v2 \in SeparatedValues,
        sep \in {<<<<>>, <<Ch.comma>>>>, <<<<Ch.comma>>, <<>>>>}}

ColonDocs ==
    {[kind |-> "colon", before |-> c.pre \o k, key |-> sep[1],
      after |-> <<Ch.space>> \o v \o c.post, fresh |-> sep[2]] :
        c \in KeyPlaces, k \in SeparatedKeys, v \in SeparatedValues,
        sep \in {<<<<>>, <<Ch.colon>>>>, <<<<Ch.colon>>, <<>>>>}}

\* longest run of StringChars written after an opening quote
MaxBody == 3

\* \  "  '  n  u  q  TAB
StringChars == {92, 34, 39, 110, 117, 113, 9}

\* the two quote characters
Quotes == {Ch.dquote, Ch.squote}

\* further texts in double quotes, each also written in single quotes:
\*   \u00e9   \u12   \u123   \u12g4   \uD800   \u00410   \uAbCd
\*   \b\f\r\t\/\\   a b   a<LF>b
\* and without the closing quote:  \u004   \u   ab\
MoreStringBodies ==
    {<<92, 117, 48, 48, 101, 57, 34>>, <<92, 117, 49, 50, 34>>,
     <<92, 117, 49, 50, 51, 34>>, <<92, 117, 49, 50, 103, 52, 34>>,
     <<92, 117, 68, 56, 48, 48, 34>>, <<92, 117, 48, 48, 52, 49, 48, 34>>,
     <<92, 117, 65, 98, 67, 100, 34>>,
     <<92, 98, 92, 102, 92, 114, 92, 116, 92, 47, 92, 92, 34>>,
     <<97, 32, 98, 34>>, <<97, 10, 98, 34>>,
     <<92, 117, 48, 48, 52>>, <<92, 117>>, <<97, 98, 92>>}

\* the text with every double quote replaced by the quote q
WithQuote(t, q) == [i \in DOMAIN t |-> IF t[i] = Ch.dquote THEN q ELSE t[i]]

\* a backslash and any one character of U+0000..U+007F, and any one such
\* character alone, between quotes
OneCharBodies == {<<Ch.backslash, c>> : c \in 0..127} \cup {<<c>> : c \in 0..127}

\* texts that open a string
StringTexts ==
    {<<q>> \o b : q \in Quotes, b \in StringsOver(StringChars, MaxBody)} \cup
    {<<q>> \o WithQuote(b, q) : q \in Quotes, b \in MoreStringBodies} \cup
    {<<q>> \o b \o <<q>> : q \in Quotes, b \in OneCharBodies}

\* longest run of CommentPieces written after the opening of a comment
MaxPieces == 4

\* /*   */   /   *   LF   x
CommentPieces == {<<47, 42>>, <<42, 47>>, <<47>>, <<42>>, <<10>>, <<120>>}

RECURSIVE PieceRuns(_)
PieceRuns(n) ==
    IF n = 0 THEN {<<>>}
    ELSE LET S == PieceRuns(n - 1) IN S \cup {t \o w : t \in S, w \in CommentPieces}

\* further texts:  /* a /* b<LF> */ c */ x     /* /* */ /* */ */<LF>x y
\*                 /* /* /* */ */ x            /* // */ x
MoreCommentTexts ==
    {<<47, 42, 32, 97, 32, 47, 42, 32, 98, 10, 32, 42, 47, 32, 99, 32, 42, 47, 32, 120>>,
     <<47, 42, 32, 47, 42, 32, 42, 47, 32, 47, 42, 32, 42, 47, 32, 42, 47, 10, 120, 32, 121>>,
     <<47, 42, 32, 47, 42, 32, 47, 42, 32, 42, 47, 32, 42, 47, 32, 120>>,
     <<47, 42, 32, 47, 47, 32, 42, 47, 32, 120>>}

\* texts that open a multi-line comment
CommentDocs ==
    {[kind |-> "comment", before |-> <<>>, key |-> t, after |-> <<>>, fresh |-> <<>>] :
        t \in {<<47, 42>> \o b : b \in PieceRuns(MaxPieces)} \cup MoreCommentTexts}

StringDocs ==
    {[kind |-> "string", before |-> <<>>, key |-> t, after |-> <<>>, fresh |-> <<>>] :
        t \in StringTexts}

WrittenDocs ==
    DuplicateDocs \cup PlainDocs \cup LexicalDocs \cup NumberDocs \cup RootDocs
    \cup CommaDocs \cup ColonDocs \cup StringDocs \cup CommentDocs

TextOf(doc) == doc.before \o doc.key \o doc.after

\* options of a parse of a hand-written text: the defaults, a small
\* maxDepth, or a maxInputLength equal to or one below the length of the text
WrittenOptionChoices(text) ==
    {DefaultOptions} \cup
    {[DefaultOptions EXCEPT !.maxDepth = n] : n \in 0..MaxLimit} \cup
    {[DefaultOptions EXCEPT !.maxInputLength = n] :
        n \in {Len(text), Len(text) - 1} \cap Nat}

\* a Value written out as text by hand: strings and keys in double quotes
\* (those of the generated trees hold no quote, backslash or control
\* character), items and pairs separated by one space, a colon after each key
RECURSIVE Spell(_)
RECURSIVE SpellPairs(_)
Spell(v) ==
    IF v.k = "null" THEN KwNull
    ELSE IF v.k = "bool" THEN (IF v.n = 1 THEN KwTrue ELSE KwFalse)
    ELSE IF v.k = "num" THEN writeNumber(v.n)
    ELSE IF v.k = "str" THEN <<Ch.dquote>> \o v.s \o <<Ch.dquote>>
    ELSE IF v.k = "arr"
        THEN <<Ch.lbracket>> \o join([i \in DOMAIN v.items |-> Spell(v.items[i])],
                                     <<Ch.space>>) \o <<Ch.rbracket>>
    ELSE <<Ch.lbrace>> \o SpellPairs(v) \o <<Ch.rbrace>>

\* the pairs of an object without the braces: the brace-less spelling of a
\* root object
SpellPairs(v) ==
    join([i \in DOMAIN v.keys |->
             <<Ch.dquote>> \o v.keys[i] \o <<Ch.dquote, Ch.colon, Ch.space>>
             \o Spell(v.items[i])],
         <<Ch.space>>)

\* the spellings of a Value: braced, and brace-less when it is an object
\* with at least one pair
SpelledDocs(v) ==
    {[kind |-> "braced", before |-> Spell(v), key |-> <<>>, after |-> <<>>,
      fresh |-> <<>>]} \cup
    (IF v.k = "obj" /\ v.keys # <<>>
     THEN {[kind |-> "braceless", before |-> SpellPairs(v), key |-> <<>>,
            after |-> <<>>, fresh |-> <<>>]}
     ELSE {})

\* options of a parse of a spelled Value: the defaults or a small maxDepth
DepthOptionChoices ==
    {DefaultOptions} \cup {[DefaultOptions EXCEPT !.maxDepth = n] : n \in 0..MaxLimit}

----------------------------------------------------------------------------
(* The caller's calls *)

NoEncode == [ok |-> FALSE, bytes |-> <<>>, message |-> "not called", byteOffset |-> 0]

NoDecode == [ok |-> FALSE, value |-> Null, offset |-> 0, message |-> "not called", error |-> ""]

NoCraft == [dict |-> <<>>, root |-> Null]

NoParse == [ok |-> FALSE, value |-> Null, message |-> "not called",
            position |-> [line |-> 0, column |-> 0, offset |-> 0]]

NoLex == [ok |-> FALSE, tokens |-> <<>>, message |-> "not called",
          position |-> [line |-> 0, column |-> 0, offset |-> 0]]

NoWritten == [kind |-> "none", before |-> <<>>, key |-> <<>>, after |-> <<>>, fresh |-> <<>>]

\* a caller holding a Value and options, about to call encode
InitCodec ==
    /\ pc = "start"
    /\ callValue \in CodecValues
    /\ callValue2 \in Reorderings(callValue)
    /\ callOptions \in OptionChoices
    /\ encoded = NoEncode
    /\ encoded2 = NoEncode
    /\ callBuffer = <<>>
    /\ tamper = "none"
    /\ crafted = NoCraft
    /\ decoded = NoDecode
    /\ callText = <<>>
    /\ parsed = NoParse
    /\ lexResult = NoLex
    /\ pool = NoPool
    /\ written = NoWritten

\* encode(callValue, callOptions) and encode(callValue2, callOptions)
Encode ==
    /\ pc = "start"
    /\ encoded' = encode(callValue, callOptions)
    /\ encoded2' = encode(callValue2, callOptions)
    /\ callBuffer' = encoded'.bytes
    /\ pc' = IF encoded'.ok THEN "encoded" ELSE "encodeFailed"
    /\ UNCHANGED <<callValue, callValue2, callOptions, tamper, crafted, decoded, callText,
                   parsed, written, lexResult, pool>>

\* decode(callBuffer, callOptions)
Decode ==
    /\ pc \in {"encoded", "tampered", "crafted"}
    /\ decoded' = decode(callBuffer, callOptions)
    /\ pc' = "decoded"
    /\ UNCHANGED <<callValue, callValue2, callOptions, encoded, encoded2, callBuffer,
                   tamper, crafted, callText, parsed, written, lexResult, pool>>

\* koda::decode(callBuffer, ...) of the native addon, on a hand-assembled
\* buffer
DecodeNative ==
    /\ pc = "crafted"
    /\ decoded' = native_decode(callBuffer, callOptions)
    /\ pc' = "decodedNative"
    /\ UNCHANGED <<callValue, callValue2, callOptions, encoded, encoded2, callBuffer,
                   tamper, crafted, callText, parsed, written, lexResult, pool>>

\* the caller drops the last bytes of an encoding: any proper prefix
Truncate ==
    /\ pc = "encoded"
    /\ \E n \in 0..(Len(callBuffer) - 1) : callBuffer' = Take(callBuffer, n)
    /\ tamper' = "truncate"
    /\ pc' = "tampered"
    /\ UNCHANGED <<callValue, callValue2, callOptions, encoded, encoded2, crafted, decoded,
                   callText, parsed, written, lexResult, pool>>

ExtraBytes == {<<0>>, <<1>>, <<255, 3>>, <<17, 0, 0, 0, 0>>}

\* the caller appends one or more bytes to an encoding
AppendBytes ==
    /\ pc = "encoded"
    /\ \E extra \in ExtraBytes : callBuffer' = callBuffer \o extra
    /\ tamper' = "append"
    /\ pc' = "tampered"
    /\ UNCHANGED <<callValue, callValue2, callOptions, encoded, encoded2, crafted, decoded,
                   callText, parsed, written, lexResult, pool>>

HeaderBytes == {0, 1, 2, 65, 68, 75, 79, 255}

\* the caller changes one of the first five bytes of an encoding
AlterHeader ==
    /\ pc = "encoded"
    /\ \E i \in 1..5 : \E b \in HeaderBytes \ {callBuffer[i]} :
           /\ callBuffer' = [callBuffer EXCEPT ![i] = b]
           /\ tamper' = IF i <= 4 THEN "magic" ELSE "version"
    /\ pc' = "tampered"
    /\ UNCHANGED <<callValue, callValue2, callOptions, encoded, encoded2, crafted, decoded,
                   callText, parsed, written, lexResult, pool>>

\* a hand-assembled buffer: header, the dictionary entries doc.dict (byte
\* strings) and the root doc.root, whose objects name their keys by index
\* (keys[i] = <<index>>)
RECURSIVE AssembleValue(_)
RECURSIVE AssembleItems(_, _)
AssembleValue(w) ==
    IF w.k = "null" THEN <<TagNull>>
    ELSE IF w.k = "bool" THEN <<IF w.n = 0 THEN TagFalse ELSE TagTrue>>
    ELSE IF w.k = "num" THEN <<TagInteger>> \o Int64BE(w.n)
    ELSE IF w.k = "str" THEN <<TagString>> \o U32BE(Len(w.s)) \o w.s
    ELSE IF w.k = "arr" THEN <<TagArray>> \o U32BE(Len(w.items)) \o AssembleItems(w, 1)
    ELSE <<TagObject>> \o U32BE(Len(w.items)) \o AssembleItems(w, 1)

AssembleItems(w, i) ==
    IF i > Len(w.items) THEN <<>>
    ELSE (IF w.k = "obj" THEN U32BE(w.keys[i][1]) ELSE <<>>) \o
         AssembleValue(w.items[i]) \o AssembleItems(w, i + 1)

Assemble(doc) ==
    MAGIC \o <<VERSION>> \o U32BE(Len(doc.dict)) \o
    Flatten([i \in DOMAIN doc.dict |-> U32BE(Len(doc.dict[i])) \o doc.dict[i]]) \o
    AssembleValue(doc.root)

CraftedDicts == {<<<<97>>>>, <<<<97>>, <<98>>>>, <<<<97>>, <<97>>>>}

CraftedLeaves == {Null, Num(1)}

\* objects of one or two entries over the indices below n
CraftedObjects(n) ==
    {Obj(<<<<i>>>>, <<x>>) : i \in 0..(n - 1), x \in CraftedLeaves} \cup
    {Obj(<<<<i>>, <<j>>>>, <<x, y>>) :
        i \in 0..(n - 1), j \in 0..(n - 1), x \in CraftedLeaves, y \in CraftedLeaves}

CraftedRoots(n) ==
    CraftedObjects(n) \cup
    {Arr(<<o>>) : o \in CraftedObjects(n)} \cup
    {Obj(<<<<0>>>>, <<o>>) : o \in CraftedObjects(n)}

\* byte strings that are not well-formed UTF-8: the overlong forms C0 80 and
\* E0 80 80, the encoded lone surrogates ED A0 80 and ED BF BF, the bytes FF
\* and 80, the cut sequence E2 82, and F4 90 80 80 (above U+10FFFF)
IllFormedUtf8 ==
    {<<192, 128>>, <<224, 128, 128>>, <<237, 160, 128>>, <<237, 191, 191>>, <<255>>,
     <<128>>, <<226, 130>>, <<244, 144, 128, 128>>}

\* well-formed ones: U+00E9, U+20AC, U+1F600, and "a" followed by U+00E9
WellFormedUtf8 ==
    {<<195, 169>>, <<226, 130, 172>>, <<240, 159, 152, 128>>, <<97, 195, 169>>}

\* buffers with the byte string b as a dictionary key (used by the root, or
\* by no object at all) or as a String payload
Utf8DocsOf(b) ==
    {[dict |-> <<b>>, root |-> Obj(<<<<0>>>>, <<Null>>)],
     [dict |-> <<b>>, root |-> Num(1)],
     [dict |-> <<<<97>>, b>>, root |-> Obj(<<<<0>>>>, <<Num(1)>>)],
     [dict |-> <<>>, root |-> Str(b)],
     [dict |-> <<>>, root |-> Arr(<<Num(1), Str(b)>>)],
     [dict |-> <<<<97>>>>, root |-> Obj(<<<<0>>>>, <<Str(b)>>)]}

Utf8Docs == UNION {Utf8DocsOf(b) : b \in IllFormedUtf8 \cup WellFormedUtf8}

CraftedDocs ==
    UNION {{[dict |-> d, root |-> r] : r \in CraftedRoots(Len(d))} : d \in CraftedDicts}
    \cup Utf8Docs

\* a caller holding a Value and options, about to call encode
InitBinary ==
    /\ pc = "start"
    /\ callValue \in TamperValues
    /\ callValue2 = callValue
    /\ callOptions \in OptionChoices
    /\ encoded = NoEncode
    /\ encoded2 = NoEncode
    /\ callBuffer = <<>>
    /\ tamper = "none"
    /\ crafted = NoCraft
    /\ decoded = NoDecode
    /\ callText = <<>>
    /\ parsed = NoParse
    /\ lexResult = NoLex
    /\ pool = NoPool
    /\ written = NoWritten

\* a caller holding a hand-assembled buffer, about to call decode
InitCrafted ==
    /\ pc = "crafted"
    /\ callValue = Null
    /\ callValue2 = Null
    /\ callOptions = DefaultOptions
    /\ encoded = NoEncode
    /\ encoded2 = NoEncode
    /\ crafted \in CraftedDocs
    /\ callBuffer = Assemble(crafted)
    /\ tamper = "crafted"
    /\ decoded = NoDecode
    /\ callText = <<>>
    /\ parsed = NoParse
    /\ lexResult = NoLex
    /\ pool = NoPool
    /\ written = NoWritten

\* a caller holding a Value and options, about to call stringify
InitText ==
    /\ pc = "textStart"
    /\ callValue \in TextValues
    /\ callValue2 = callValue
    /\ callOptions \in TextOptionChoices
    /\ encoded = NoEncode
    /\ encoded2 = NoEncode
    /\ callBuffer = <<>>
    /\ tamper = "none"
    /\ crafted = NoCraft
    /\ decoded = NoDecode
    /\ callText = <<>>
    /\ parsed = NoParse
    /\ lexResult = NoLex
    /\ pool = NoPool
    /\ written = NoWritten

\* a caller holding a hand-written text, about to call parse
InitWritten ==
    /\ pc = "written"
    /\ callValue = Null
    /\ callValue2 = Null
    /\ written \in WrittenDocs
    /\ callText = TextOf(written)
    /\ callOptions \in WrittenOptionChoices(callText)
    /\ encoded = NoEncode
    /\ encoded2 = NoEncode
    /\ callBuffer = <<>>
    /\ tamper = "none"
    /\ crafted = NoCraft
    /\ decoded = NoDecode
    /\ parsed = NoParse
    /\ lexResult = NoLex
    /\ pool = NoPool

\* a caller holding a generated Value spelled out as text, about to call parse
InitSpelled ==
    /\ pc = "written"
    /\ callValue \in Trees
    /\ callValue2 = callValue
    /\ written \in SpelledDocs(callValue)
    /\ callText = TextOf(written)
    /\ callOptions \in DepthOptionChoices
    /\ encoded = NoEncode
    /\ encoded2 = NoEncode
    /\ callBuffer = <<>>
    /\ tamper = "none"
    /\ crafted = NoCraft
    /\ decoded = NoDecode
    /\ parsed = NoParse
    /\ lexResult = NoLex
    /\ pool = NoPool

\* callText = stringify(callValue, callOptions)
Stringify ==
    /\ pc = "textStart"
    /\ callText' = stringify(callValue, callOptions)
    /\ pc' = "stringified"
    /\ UNCHANGED <<callValue, callValue2, callOptions, encoded, encoded2, callBuffer,
                   tamper, crafted, decoded, parsed, written, lexResult, pool>>

\* parse(callText, callOptions)
Parse ==
    /\ pc \in {"stringified", "written"}
    /\ parsed' = parse(callText, callOptions)
    /\ pc' = "parsed"
    /\ UNCHANGED <<callValue, callValue2, callOptions, encoded, encoded2, callBuffer,
                   tamper, crafted, decoded, callText, written, lexResult, pool>>

\* parseFast(callText, callOptions) of the text stringify returned or of a
\* hand-written text
ParseFast ==
    /\ pc \in {"stringified", "written"}
    /\ parsed' = parseFast(callText, callOptions)
    /\ pc' = "parsedFast"
    /\ UNCHANGED <<callValue, callValue2, callOptions, encoded, encoded2, callBuffer,
                   tamper, crafted, decoded, callText, written, lexResult, pool>>

\* tokenize(callText, {maxInputLength}) of the text stringify returned or of
\* a hand-written text
Tokenize ==
    /\ pc \in {"stringified", "written"}
    /\ lexResult' = tokenize(callText, callOptions)
    /\ pc' = "tokenized"
    /\ UNCHANGED <<callValue, callValue2, callOptions, encoded, encoded2, callBuffer,
                   tamper, crafted, decoded, callText, parsed, written, pool>>

InitTextCalls == InitText \/ InitWritten \/ InitSpelled

NextText == Stringify \/ Tokenize \/ Parse \/ ParseFast

SpecText == InitTextCalls /\ [][NextText]_vars

\* a caller holding a generated Value and a maxDepth, about to encode it
\* under that maxDepth and under the default
InitDepth ==
    /\ pc = "depthStart"
    /\ callValue \in Trees
    /\ callValue2 = callValue
    /\ callOptions \in DepthOptionChoices
    /\ encoded = NoEncode
    /\ encoded2 = NoEncode
    /\ callBuffer = <<>>
    /\ tamper = "none"
    /\ crafted = NoCraft
    /\ decoded = NoDecode
    /\ callText = <<>>
    /\ parsed = NoParse
    /\ lexResult = NoLex
    /\ pool = NoPool
    /\ written = NoWritten

\* encode(callValue, callOptions), and encode(callValue) under the default
\* options, whose output is kept to be decoded under callOptions
EncodeUnlimited ==
    /\ pc = "depthStart"
    /\ encoded' = encode(callValue, callOptions)
    /\ encoded2' = encode(callValue2, DefaultOptions)
    /\ callBuffer' = encoded2'.bytes
    /\ tamper' = "relimit"
    /\ pc' = "tampered"
    /\ UNCHANGED <<callValue, callValue2, callOptions, crafted, decoded, callText,
                   parsed, written, lexResult, pool>>

NextCodec == Encode \/ Decode

SpecCodec == InitCodec /\ [][NextCodec]_vars

Init == InitBinary \/ InitCrafted \/ InitWritten \/ InitDepth

Next ==
    \/ Encode \/ Truncate \/ AppendBytes \/ AlterHeader \/ EncodeUnlimited
    \/ Decode \/ DecodeNative \/ Parse

Spec == Init /\ [][Next]_vars

----------------------------------------------------------------------------
(* A decoder pool and its callers *)

codecVars == <<pc, callValue, callValue2, callOptions, encoded, encoded2, callBuffer,
               tamper, crafted, decoded, callText, parsed, written, lexResult>>

\* createDecoderPool({poolSize}) has returned; poolSize undefined is 0 here
InitPool ==
    /\ pc = "pool"
    /\ callValue = Null
    /\ callValue2 = Null
    /\ callOptions = DefaultOptions
    /\ encoded = NoEncode
    /\ encoded2 = NoEncode
    /\ callBuffer = <<>>
    /\ tamper = "none"
    /\ crafted = NoCraft
    /\ decoded = NoDecode
    /\ callText = <<>>
    /\ parsed = NoParse
    /\ lexResult = NoLex
    /\ written = NoWritten
    /\ \E poolSizeOption \in 0..MaxPool : pool = createDecoderPool(poolSizeOption)

\* a caller calls pool.decode
PoolDecode ==
    /\ pc = "pool"
    /\ Len(pool.calls) < MaxCalls
    /\ pool' = pool_decode(pool)
    /\ UNCHANGED codecVars

\* a caller calls pool.destroy; a second call returns at once
PoolDestroy ==
    /\ pc = "pool"
    /\ ~pool.destroyed
    /\ pool' = pool_destroy(pool)
    /\ UNCHANGED codecVars

\* worker w takes its next job and posts its reply
WorkerReply(w) ==
    /\ pc = "pool"
    /\ w \in 1..pool.poolSize
    /\ pool.running[w]
    /\ pool.inbox[w] # <<>>
    /\ \E kind \in ReplyKinds :
          pool' = [pool EXCEPT
              !.inbox[w] = Tail(pool.inbox[w]),
              !.replies[w] = Append(pool.replies[w],
                                    [id |-> Head(pool.inbox[w]), kind |-> kind])]
    /\ UNCHANGED codecVars

\* the event loop hands the oldest message of worker w to its listener
PoolMessage(w) ==
    /\ pc = "pool"
    /\ w \in 1..pool.poolSize
    /\ pool.replies[w] # <<>>
    /\ pool' = pool_onMessage([pool EXCEPT !.replies[w] = Tail(pool.replies[w])],
                              w, Head(pool.replies[w]))
    /\ UNCHANGED codecVars

\* worker w exits or fails on its own; the pool listens to neither event.
\* The jobs it had not taken are gone with it.
WorkerExit(w) ==
    /\ pc = "pool"
    /\ w \in 1..pool.poolSize
    /\ pool.running[w]
    /\ pool' = [pool EXCEPT !.running[w] = FALSE, !.inbox[w] = <<>>]
    /\ UNCHANGED codecVars

\* a message of a worker that has ended is dropped before it is handed over
MessageLost(w) ==
    /\ pc = "pool"
    /\ w \in 1..pool.poolSize
    /\ ~pool.running[w]
    /\ pool.replies[w] # <<>>
    /\ pool' = [pool EXCEPT !.replies[w] = Tail(pool.replies[w])]
    /\ UNCHANGED codecVars

NextPool ==
    \/ PoolDecode
    \/ PoolDestroy
    \/ \E w \in 1..pool.poolSize : WorkerReply(w)
    \/ \E w \in 1..pool.poolSize : PoolMessage(w)
    \/ \E w \in 1..pool.poolSize : WorkerExit(w)
    \/ \E w \in 1..pool.poolSize : MessageLost(w)

SpecPool == InitPool /\ [][NextPool]_vars

\* a running worker takes the jobs posted to it, and the event loop hands
\* over the messages that reach it
SpecPoolFair ==
    /\ SpecPool
    /\ \A w \in 1..MaxPool : WF_vars(WorkerReply(w))
    /\ \A w \in 1..MaxPool : WF_vars(PoolMessage(w))

----------------------------------------------------------------------------
(* Notions the properties are stated with *)

\* structural equality of Values, object key order ignored
RECURSIVE StructEq(_, _)
StructEq(v, w) ==
    /\ v.k = w.k
    /\ v.n = w.n
    /\ v.s = w.s
    /\ Len(v.items) = Len(w.items)
    /\ IF v.k = "obj"
       THEN /\ Range(v.keys) = Range(w.keys)
            /\ \A i \in DOMAIN v.keys : \A j \in DOMAIN w.keys :
                   v.keys[i] = w.keys[j] => StructEq(v.items[i], w.items[j])
       ELSE \A i \in DOMAIN v.items : StructEq(v.items[i], w.items[i])

\* depth of the deepest node of v, the root being at depth 0
RECURSIVE Nesting(_)
Nesting(v) ==
    IF v.items = <<>> THEN 0
    ELSE 1 + (CHOOSE d \in {Nesting(v.items[i]) : i \in DOMAIN v.items} :
                 \A i \in DOMAIN v.items : Nesting(v.items[i]) <= d)

\* every key that occurs in an object anywhere in v
RECURSIVE AllKeys(_)
AllKeys(v) == Range(v.keys) \cup UNION {AllKeys(v.items[i]) : i \in DOMAIN v.items}

\* every string value that occurs anywhere in v
RECURSIVE AllStrings(_)
AllStrings(v) ==
    (IF v.k = "str" THEN {v.s} ELSE {}) \cup
    UNION {AllStrings(v.items[i]) : i \in DOMAIN v.items}

Utf8Length(s) == Len(encodeUtf8(s))

WithinLimits(v, opts) ==
    /\ Nesting(v) <= opts.maxDepth
    /\ \A s \in AllStrings(v) \cup AllKeys(v) : Utf8Length(s) <= opts.maxStringLength
    /\ Cardinality(AllKeys(v)) <= opts.maxDictionarySize

\* a is before b in lexicographic order of bytes, a proper prefix first
BytesLess(a, b) ==
    \E i \in 1..Len(b) :
        /\ \A j \in 1..(i - 1) : j <= Len(a) /\ a[j] = b[j]
        /\ \/ i = Len(a) + 1
           \/ i <= Len(a) /\ a[i] < b[i]

\* the key dictionary found in an encoding: the byte strings of its entries
RECURSIVE WrittenKeys(_, _, _)
WrittenKeys(bytes, offset, count) ==
    IF count = 0 THEN <<>>
    ELSE LET len == FromU32BE(bytesAt(bytes, offset, 4))
         IN  <<bytesAt(bytes, offset + 4, len)>> \o
             WrittenKeys(bytes, offset + 4 + len, count - 1)

WrittenDictionary(bytes) == WrittenKeys(bytes, 9, FromU32BE(bytesAt(bytes, 5, 4)))

\* where the root value starts in an encoding
RootOffset(bytes) ==
    LET d == WrittenDictionary(bytes)
    IN  9 + 4 * Len(d) + Len(Flatten(d))

\* the root value of an encoding read with each object key replaced by the
\* one-element string holding its key index
WrittenIndices(bytes) ==
    decodeValue(bytes, RootOffset(bytes), 0, DefaultOptions,
                [i \in 1..Len(WrittenDictionary(bytes)) |-> <<i - 1>>]).value

\* each object entry of w (read by WrittenIndices) names, by its index into
\* dict, the key of an entry of the corresponding object of v
RECURSIVE IndexRefsOK(_, _, _)
IndexRefsOK(v, w, dict) ==
    /\ v.k = w.k
    /\ Len(v.items) = Len(w.items)
    /\ IF v.k = "obj"
       THEN \A i \in DOMAIN w.keys :
                /\ w.keys[i][1] < Len(dict)
                /\ \E j \in DOMAIN v.keys :
                       /\ encodeUtf8(v.keys[j]) = dict[w.keys[i][1] + 1]
                       /\ IndexRefsOK(v.items[j], w.items[i], dict)
       ELSE \A i \in DOMAIN v.items : IndexRefsOK(v.items[i], w.items[i], dict)

----------------------------------------------------------------------------
(* Properties of the binary codec *)

\* C1 (as claimed): for every Value within the limits, encode succeeds and
\* decode of its output succeeds and returns a structurally equal Value.
C1_BinaryRoundTrip ==
    pc # "start" /\ tamper = "none" /\ WithinLimits(callValue, callOptions) =>
        /\ encoded.ok
        /\ pc = "decoded" => decoded.ok /\ StructEq(decoded.value, callValue)

\* C2: two structurally equal Values whose objects list their keys in
\* different orders are encoded to the same bytes (and encode fails on one
\* exactly when it fails on the other).
C2_Canonical ==
    pc # "start" /\ tamper = "none" =>
        encoded.ok = encoded2.ok /\ encoded.bytes = encoded2.bytes

C2_Witness ==
    /\ pc = "encoded"
    /\ callValue.k = "arr"
    /\ callValue2 # callValue
    /\ encoded.ok

\* C3: the dictionary written by encode is strictly ascending in byte order,
\* so free of duplicates, holds exactly the keys of the objects of the value
\* tree, and every key index of an object entry is the position of that
\* entry's key in the dictionary.
C3_Dictionary ==
    pc \in {"encoded", "decoded"} /\ tamper = "none" =>
        LET dict == WrittenDictionary(encoded.bytes)
        IN  /\ \A i \in 1..(Len(dict) - 1) : BytesLess(dict[i], dict[i + 1])
            /\ Range(dict) = {encodeUtf8(key) : key \in AllKeys(callValue)}
            /\ IndexRefsOK(callValue, WrittenIndices(encoded.bytes), dict)

C3_Witness ==
    /\ pc = "encoded"
    /\ callValue.k = "arr"
    /\ Cardinality(AllKeys(callValue)) = 2
    /\ callValue.items[1].k = "obj"
    /\ Len(callValue.items[1].keys) = 2
    /\ compareKeys(callValue.items[1].keys[1], callValue.items[1].keys[2]) > 0

\* some object of the index tree w has two entries that name the same key:
\* the same index twice, or two indices whose dictionary strings are equal
RECURSIVE RepeatsKey(_, _)
RepeatsKey(dict, w) ==
    \/ /\ w.k = "obj"
       /\ \E i, j \in DOMAIN w.keys :
              i # j /\ dict[w.keys[i][1] + 1] = dict[w.keys[j][1] + 1]
    \/ \E i \in DOMAIN w.items : RepeatsKey(dict, w.items[i])

\* C5 (as claimed): decode rejects, with a decode error, every buffer in
\* which an object names the same key more than once.
C5_DuplicateKeysRejected ==
    pc = "decoded" /\ tamper = "crafted" /\ RepeatsKey(crafted.dict, crafted.root) =>
        ~decoded.ok /\ decoded.error = "KodaDecodeError"

\* C7: when decode accepts a buffer, decode of that buffer followed by one
\* or more extra bytes fails with 'Trailing bytes after root value' (at the
\* offset where the root value ended); and whenever decode succeeds the read
\* offset equals the buffer length.
C7_TrailingBytes ==
    pc = "decoded" =>
        /\ decoded.ok => decoded.offset = Len(callBuffer)
        /\ tamper = "append" /\ decode(encoded.bytes, callOptions).ok =>
               decoded = fail("Trailing bytes after root value", Len(encoded.bytes))

C7_Witness ==
    /\ pc = "decoded"
    /\ tamper = "append"
    /\ decode(encoded.bytes, callOptions).ok
    /\ Len(callBuffer) > Len(encoded.bytes) + 1
    /\ callValue.k = "obj"

\* C8: changing one of the four magic bytes of an encoding makes decode fail
\* with 'Invalid magic number', changing the version byte makes it fail with
\* 'Unsupported version', and an input of fewer than 5 bytes fails with
\* 'Truncated input'.
C8_Header ==
    pc = "decoded" =>
        /\ tamper = "magic" => decoded = fail("Invalid magic number", 0)
        /\ tamper = "version" => decoded = fail("Unsupported version", 5)
        /\ Len(callBuffer) < 5 => decoded = fail("Truncated input", 0)

C8_Witness ==
    /\ pc = "decoded"
    /\ tamper = "magic"
    /\ callBuffer[4] # MAGIC[4]
    /\ SubSeq(callBuffer, 1, 3) = SubSeq(MAGIC, 1, 3)
    /\ decode(encoded.bytes, callOptions).ok

\* C9 (as claimed): decode of every proper prefix of an output of encode
\* fails with 'Truncated input'.
C9_PrefixTruncated ==
    pc = "decoded" /\ tamper = "truncate" =>
        ~decoded.ok /\ decoded.message = "Truncated input"

\* C9 (amended): when decode accepts an output of encode under the options
\* in force, decode of every proper prefix of it under the same options
\* fails with 'Truncated input', raised as a KodaDecodeError.
C9_PrefixOfAcceptedTruncated ==
    pc = "decoded" /\ tamper = "truncate" /\ decode(encoded.bytes, callOptions).ok =>
        /\ ~decoded.ok
        /\ decoded.message = "Truncated input"
        /\ decoded.error = "KodaDecodeError"

C9_Witness ==
    /\ pc = "decoded"
    /\ tamper = "truncate"
    /\ decode(encoded.bytes, callOptions).ok
    /\ callValue.k = "obj"
    /\ Len(callBuffer) = Len(encoded.bytes) - 1
    /\ decoded.message = "Truncated input"

----------------------------------------------------------------------------
(* Properties of the text format *)

\* the line, column and offset of the character at the 0-based offset of a
\* text: lines are ended by LF, columns count from 1
PositionAt(text, offset) ==
    LET breaks == {i \in 1..offset : text[i] = Ch.lf}
        lastBreak == IF breaks = {} THEN 0
                     ELSE CHOOSE i \in breaks : \A j \in breaks : j <= i
    IN  pos(Cardinality(breaks) + 1, offset - lastBreak + 1, offset)

\* C4 (as claimed): for every Value without floats, parse(stringify(v))
\* succeeds and returns a Value structurally equal to v, in compact mode and
\* in pretty mode.
C4_TextRoundTrip ==
    pc = "parsed" /\ written.kind = "none" =>
        parsed.ok /\ StructEq(parsed.value, callValue)

\* the text of a written document with the second occurrence of the key
\* replaced by a key that occurs nowhere else
FreshText(doc) == doc.before \o doc.fresh \o doc.after

\* C6 (as claimed): a text in which an object (the implicit root, a braced
\* root, a nested object) holds the same key twice, and which parse accepts
\* once the second occurrence is renamed, is rejected with 'Duplicate key'
\* at the line, column and offset where the second occurrence starts, and
\* no value is returned.
C6_DuplicateKeyRejected ==
    pc = "parsed" /\ written.kind = "duplicate"
                  /\ parse(FreshText(written), callOptions).ok =>
        parsed = [ok |-> FALSE, value |-> Null, message |-> "Duplicate key",
                  position |-> PositionAt(callText, Len(written.before))]

----------------------------------------------------------------------------
(* Size limits *)

\* the UTF-8 byte strings of a set of keys in ascending byte order
SortedKeyBytes(keySet) ==
    LET bs == {encodeUtf8(key) : key \in keySet}
    IN  [r \in 1..Cardinality(bs) |->
            CHOOSE b \in bs : Cardinality({a \in bs : BytesLess(a, b)}) = r - 1]

\* the values of the entries of an object in ascending byte order of their keys
ItemsByKey(v) ==
    [r \in 1..Len(v.keys) |->
        v.items[CHOOSE i \in DOMAIN v.keys :
                   Cardinality({j \in DOMAIN v.keys :
                       BytesLess(encodeUtf8(v.keys[j]), encodeUtf8(v.keys[i]))}) = r - 1]]

\* the number of bytes a value takes in the binary format: a tag, then 8
\* bytes of a number, or a u32 length and the bytes of a string, or a u32
\* count and the items (each entry of an object after a u32 key index)
RECURSIVE EncodedSize(_)
RECURSIVE EncodedSizes(_, _)
EncodedSize(v) ==
    IF v.k \in {"null", "bool"} THEN 1
    ELSE IF v.k \in {"num", "float"} THEN 9
    ELSE IF v.k = "str" THEN 5 + Utf8Length(v.s)
    ELSE IF v.k = "arr" THEN 5 + EncodedSizes(v.items, 0)
    ELSE 5 + EncodedSizes(v.items, 4)

EncodedSizes(items, lead) ==
    IF items = <<>> THEN 0
    ELSE lead + EncodedSize(Head(items)) + EncodedSizes(Tail(items), lead)

\* in the encoding of v that starts at offset off: the offset just after the
\* length field of the first string longer than maxStr bytes, -1 when there
\* is none
RECURSIVE FirstLongString(_, _, _)
RECURSIVE FirstLongStringIn(_, _, _, _)
FirstLongString(v, off, maxStr) ==
    IF v.k = "str" THEN (IF Utf8Length(v.s) > maxStr THEN off + 5 ELSE -1)
    ELSE IF v.k = "arr" THEN FirstLongStringIn(v.items, off + 5, 0, maxStr)
    ELSE IF v.k = "obj" THEN FirstLongStringIn(ItemsByKey(v), off + 5, 4, maxStr)
    ELSE -1

FirstLongStringIn(items, off, lead, maxStr) ==
    IF items = <<>> THEN -1
    ELSE LET r == FirstLongString(Head(items), off + lead, maxStr)
         IN  IF r # -1 THEN r
             ELSE FirstLongStringIn(Tail(items), off + lead + EncodedSize(Head(items)),
                                    lead, maxStr)

\* the offset of the i-th entry of a dictionary in an encoding
RECURSIVE DictEntryOffset(_, _)
DictEntryOffset(dict, i) ==
    IF i = 1 THEN 9 ELSE DictEntryOffset(dict, i - 1) + 4 + Len(dict[i - 1])

InputTooLong == [ok |-> FALSE, value |-> Null, message |-> "Input exceeds maximum length",
                 position |-> pos(1, 1, 0)]

\* C10: decode of an encoding, whole or cut short, whose dictionary has more
\* entries than maxDictionarySize fails with 'Dictionary too large' as soon
\* as the count has been read (offset 9); otherwise, when a key is longer
\* than maxStringLength, with 'Key string too long' just after the length of
\* the first such key; otherwise, when a string is longer than
\* maxStringLength, with 'String too long' just after the length of the
\* first such string; each of them whether or not the bytes after the length
\* are there, and with no Value.  When every count and length is at most its
\* limit the whole encoding is accepted.  parse of a text longer than
\* maxInputLength fails with 'Input exceeds maximum length' at (1,1,0) with
\* no Value, whatever the text holds; a text of exactly maxInputLength
\* characters does not.
C10_SizeLimits ==
    /\ pc = "decoded" /\ tamper \in {"none", "truncate"} =>
          LET dict == SortedKeyBytes(AllKeys(callValue))
              maxStr == callOptions.maxStringLength
              longKeys == {i \in DOMAIN dict : Len(dict[i]) > maxStr}
              keyAt == 4 + DictEntryOffset(dict, CHOOSE i \in longKeys :
                                                     \A j \in longKeys : i <= j)
              strAt == FirstLongString(callValue, DictEntryOffset(dict, Len(dict) + 1),
                                       maxStr)
          IN  IF Len(dict) > callOptions.maxDictionarySize
                  THEN Len(callBuffer) >= 9 =>
                           decoded = fail("Dictionary too large", 9)
              ELSE IF longKeys # {}
                  THEN Len(callBuffer) >= keyAt =>
                           decoded = fail("Key string too long", keyAt)
              ELSE IF strAt # -1
                  THEN Len(callBuffer) >= strAt =>
                           decoded = fail("String too long", strAt)
              ELSE tamper = "none" => decoded.ok
    /\ pc = "parsed" =>
          /\ Len(callText) > callOptions.maxInputLength => parsed = InputTooLong
          /\ Len(callText) <= callOptions.maxInputLength =>
                 parsed.message # "Input exceeds maximum length"

\* a key of exactly maxStringLength bytes in a dictionary of exactly
\* maxDictionarySize entries has been accepted
C10_Witness ==
    /\ pc = "decoded"
    /\ tamper = "none"
    /\ decoded.ok
    /\ callValue.k = "obj"
    /\ Len(callValue.keys) = callOptions.maxDictionarySize
    /\ \E i \in DOMAIN callValue.keys :
           Utf8Length(callValue.keys[i]) = callOptions.maxStringLength

----------------------------------------------------------------------------
(* Nesting depth *)

DepthError == "Maximum nesting depth exceeded"

\* C11: parse of a spelled Value under maxDepth d fails with 'Maximum
\* nesting depth exceeded' exactly when the Value has a node deeper than d
\* (the root at depth 0, each member one deeper than its container, the
\* members of a brace-less root at depth 1); otherwise it returns the Value;
\* the brace-less spelling of a root object is accepted exactly when its
\* braced spelling is.
C11_ParseDepth ==
    pc = "parsed" /\ written.kind \in {"braced", "braceless"} =>
        /\ Nesting(callValue) > callOptions.maxDepth <=>
               ~parsed.ok /\ parsed.message = DepthError
        /\ Nesting(callValue) <= callOptions.maxDepth =>
               parsed.ok /\ StructEq(parsed.value, callValue)
        /\ written.kind = "braceless" =>
               parsed.ok = parse(Spell(callValue), callOptions).ok

C11_Witness ==
    /\ pc = "parsed"
    /\ written.kind = "braceless"
    /\ Nesting(callValue) = callOptions.maxDepth + 1
    /\ callOptions.maxDepth >= 1
    /\ parsed.message = DepthError

\* the longest chain of arrays and objects nested in one another in v,
\* the outermost counted: 0 for a scalar, 1 for an empty container
RECURSIVE ContainerChain(_)
ContainerChain(v) ==
    IF v.k \notin {"arr", "obj"} THEN 0
    ELSE IF v.items = <<>> THEN 1
    ELSE 1 + (CHOOSE d \in {ContainerChain(v.items[i]) : i \in DOMAIN v.items} :
                 \A i \in DOMAIN v.items : ContainerChain(v.items[i]) <= d)

\* in the encoding of v that starts at offset off, v being at the given
\* depth: the offset where the first value deeper than d starts, -1 when
\* there is none
RECURSIVE FirstDeepValue(_, _, _, _)
RECURSIVE FirstDeepValueIn(_, _, _, _, _)
FirstDeepValue(v, off, depth, d) ==
    IF depth > d THEN off
    ELSE IF v.k = "arr" THEN FirstDeepValueIn(v.items, off + 5, 0, depth + 1, d)
    ELSE IF v.k = "obj" THEN FirstDeepValueIn(ItemsByKey(v), off + 5, 4, depth + 1, d)
    ELSE -1

FirstDeepValueIn(items, off, lead, depth, d) ==
    IF items = <<>> THEN -1
    ELSE LET r == FirstDeepValue(Head(items), off + lead, depth, d)
         IN  IF r # -1 THEN r
             ELSE FirstDeepValueIn(Tail(items), off + lead + EncodedSize(Head(items)),
                                   lead, depth, d)

\* where the root value starts in the encoding of v
RootStart(v) ==
    LET dict == SortedKeyBytes(AllKeys(v))
    IN  DictEntryOffset(dict, Len(dict) + 1)

\* C12 (as claimed): encode under maxDepth d fails with 'Maximum nesting
\* depth exceeded' and returns no bytes whenever the Value holds a chain of
\* more than d arrays/objects nested in one another, the innermost empty or
\* not; the error carries the number of bytes written before the value that
\* is too deep.
C12_EncodeDepth ==
    pc # "start" /\ tamper = "none" =>
        /\ ContainerChain(callValue) > callOptions.maxDepth =>
               ~encoded.ok /\ encoded.message = DepthError /\ encoded.bytes = <<>>
        /\ Nesting(callValue) > callOptions.maxDepth =>
               encoded.byteOffset =
                   FirstDeepValue(callValue, RootStart(callValue), 0, callOptions.maxDepth)

\* C13: decode under maxDepth d of the encoding of a Value fails with
\* 'Maximum nesting depth exceeded' exactly when encode of that Value under
\* maxDepth d fails with that error; so what encode accepts under d, decode
\* accepts under d.
C13_DecodeDepthAsEncode ==
    pc = "decoded" /\ tamper = "relimit" =>
        /\ (~decoded.ok /\ decoded.message = DepthError) <=>
               (~encoded.ok /\ encoded.message = DepthError)
        /\ encoded.ok => decoded.ok /\ callBuffer = encoded.bytes

C13_Witness ==
    /\ pc = "decoded"
    /\ tamper = "relimit"
    /\ callOptions.maxDepth >= 1
    /\ Nesting(callValue) = callOptions.maxDepth + 1
    /\ decoded.message = DepthError
    /\ encoded.message = DepthError

----------------------------------------------------------------------------
(* Errors of decode and ill-formed UTF-8 *)

\* the byte strings the hand-assembled buffer holds as dictionary keys and
\* as String payloads
RECURSIVE PayloadsOf(_)
PayloadsOf(w) ==
    IF w.k = "str" THEN {w.s}
    ELSE IF w.k \in {"arr", "obj"} THEN UNION {PayloadsOf(w.items[i]) : i \in DOMAIN w.items}
    ELSE {}

WellFormed(bytes) == decodeUtf8(bytes).ok

HoldsIllFormedUtf8(doc) ==
    \/ \E i \in DOMAIN doc.dict : ~WellFormed(doc.dict[i])
    \/ \E b \in PayloadsOf(doc.root) : ~WellFormed(b)

\* C14 (as claimed): every failure of decode is a KodaDecodeError whose
\* byteOffset is the read offset at the point of failure, ill-formed UTF-8
\* in a dictionary key or a String payload included; no other error type
\* escapes decode.
C14_DecodeErrorType ==
    pc = "decoded" /\ ~decoded.ok =>
        decoded.error = "KodaDecodeError" /\ decoded.offset \in 0..Len(callBuffer)

\* C15 (as claimed): decode rejects every input in which a dictionary key
\* or a String payload is not well-formed UTF-8, the TypeScript decoder and
\* the native decoder alike.
C15_IllFormedUtf8Rejected ==
    pc \in {"decoded", "decodedNative"} /\ tamper = "crafted"
        /\ HoldsIllFormedUtf8(crafted) => ~decoded.ok

----------------------------------------------------------------------------
(* Lexical errors and numbers *)

TooLongError == "Input exceeds maximum length"

\* C16 (as claimed): every KodaParseError thrown by tokenize carries the
\* line, column and offset of the first character of the token being lexed
\* (the opening quote of an unclosed or malformed string, the first
\* character of an invalid number, the opening of an unclosed comment), not
\* the position at which scanning stopped.
C16_ErrorAtTokenStart ==
    pc = "tokenized" /\ written.kind = "lexical" /\ ~lexResult.ok
        /\ lexResult.message # TooLongError =>
            lexResult.position = PositionAt(callText, Len(written.before))

\* the text begins with an optional '-', a 0 and, right after it, a digit
LeadingZero(t) ==
    \E i \in {1, 2} :
        /\ i = 2 => t[1] = Ch.minus
        /\ Len(t) > i
        /\ t[i] = Ch.zero
        /\ IsDigit(t[i + 1])

WithinLength == Len(callText) <= callOptions.maxInputLength

IsArrayOfNumbers(v) == v.k = "arr" /\ \A i \in DOMAIN v.items : v.items[i].k = "num"

\* C17 (as claimed): tokenize rejects with 'Invalid number: leading zero'
\* every number in which a leading 0, after an optional '-', is immediately
\* followed by another digit 0-9; parse never turns such a text written in
\* an array into an array of numbers.
C17_LeadingZeroRejected ==
    written.kind = "number" /\ LeadingZero(written.key) /\ WithinLength =>
        /\ pc = "tokenized" =>
               ~lexResult.ok /\ lexResult.message = "Invalid number: leading zero"
        /\ pc = "parsed" => ~(parsed.ok /\ IsArrayOfNumbers(parsed.value))

\* the first index at or after i of t that holds no digit
RECURSIVE SkipDigits(_, _)
SkipDigits(t, i) == IF i <= Len(t) /\ IsDigit(t[i]) THEN SkipDigits(t, i + 1) ELSE i

CharAt(t, i) == IF i \in DOMAIN t THEN t[i] ELSE -1

\* the index after the longest match of ([eE][+-]?[0-9]+)? at index i
AfterExponent(t, i) ==
    LET d == IF CharAt(t, i + 1) \in {Ch.plus, Ch.minus} THEN i + 2 ELSE i + 1
    IN  IF CharAt(t, i) \in {Ch.e, Ch.upperE} /\ SkipDigits(t, d) > d
        THEN SkipDigits(t, d) ELSE i

\* the index after the longest match of (.[0-9]+)? at index i
AfterFraction(t, i) ==
    IF CharAt(t, i) = Ch.dot /\ SkipDigits(t, i + 1) > i + 1
    THEN SkipDigits(t, i + 1) ELSE i

\* the index after the match of (0|[1-9][0-9]*) at index i, 0 when none
AfterInteger(t, i) ==
    IF CharAt(t, i) = Ch.zero THEN i + 1
    ELSE IF CharAt(t, i) # -1 /\ IsDigit(CharAt(t, i)) THEN SkipDigits(t, i)
    ELSE 0

\* the whole of t matches -?(0|[1-9][0-9]*)(.[0-9]+)?([eE][+-]?[0-9]+)?
MatchesNumber(t) ==
    LET i == AfterInteger(t, IF CharAt(t, 1) = Ch.minus THEN 2 ELSE 1)
    IN  i # 0 /\ AfterExponent(t, AfterFraction(t, i)) = Len(t) + 1

HasDotOrExponent(t) == \E i \in DOMAIN t : t[i] \in {Ch.dot, Ch.e, Ch.upperE}

\* tokenize returned one number token (and Eof) for the whole text
IsOneNumber(r) ==
    /\ r.ok
    /\ Len(r.tokens) = 2
    /\ r.tokens[1].kind \in {"Integer", "Float"}
    /\ r.tokens[1].start.offset = 0
    /\ r.tokens[1].end.offset = Len(callText)

\* 1.   -.5   .5   1e
NamedNonNumbers == {<<49, 46>>, <<45, 46, 53>>, <<46, 53>>, <<49, 101>>}

\* C18 (as claimed): tokenize accepts a number token only if its text
\* matches -?(0|[1-9][0-9]*)(.[0-9]+)?([eE][+-]?[0-9]+)?, so 1. and -.5 and
\* .5 and 1e are all errors; a token with '.' or an exponent is a Float,
\* any other is an Integer.
C18_NumberGrammar ==
    pc = "tokenized" /\ written.kind = "number" /\ written.before = <<>>
        /\ WithinLength =>
            /\ IsOneNumber(lexResult) =>
                   /\ MatchesNumber(written.key)
                   /\ lexResult.tokens[1].kind = "Float" <=> HasDotOrExponent(written.key)
            /\ written.key \in NamedNonNumbers => ~lexResult.ok

----------------------------------------------------------------------------
(* Root rule, colon and comma *)

\* the text between braces, and between brackets, each on a line of its own
Braced(text) == <<Ch.lbrace, Ch.lf>> \o text \o <<Ch.lf, Ch.rbrace>>

Bracketed(text) == <<Ch.lbracket, Ch.lf>> \o text \o <<Ch.lf, Ch.rbracket>>

\* the first token is an Identifier or String and the next is not Eof
StartsPairs(lex) ==
    /\ Len(lex.tokens) >= 2
    /\ lex.tokens[1].kind \in {"Identifier", "String"}
    /\ lex.tokens[2].kind # "Eof"

HasComma(lex) == \E i \in DOMAIN lex.tokens : lex.tokens[i].kind = "Comma"

\* {name: "my-app", version: 1, enabled: true}
ExampleValue ==
    Obj(<<<<110, 97, 109, 101>>, <<118, 101, 114, 115, 105, 111, 110>>,
          <<101, 110, 97, 98, 108, 101, 100>>>>,
        <<Str(<<109, 121, 45, 97, 112, 112>>), Num(1), Bool(TRUE)>>)

\* the outcome `out` of parse on a text with the tokens `lex`, against the
\* outcomes of parse on the text in braces and on the text in brackets: a
\* text that starts pairs is read as the braces read it, any other as the
\* one item the brackets hold (a text with a comma may be accepted in braces
\* or brackets only)
RootRule(out, lex, braced, bracketed) ==
    /\ ~lex.ok => ~out.ok
    /\ lex.ok /\ StartsPairs(lex) =>
           /\ out.ok => braced.ok /\ out.value.k = "obj" /\ out.value = braced.value
           /\ ~HasComma(lex) /\ braced.ok => out.ok
    /\ lex.ok /\ ~StartsPairs(lex) =>
           /\ out.ok => /\ bracketed.ok
                        /\ Len(bracketed.value.items) = 1
                        /\ out.value = bracketed.value.items[1]
           /\ ~HasComma(lex) /\ bracketed.ok /\ Len(bracketed.value.items) = 1 => out.ok
    /\ lex.ok /\ Len(lex.tokens) = 2 /\ lex.tokens[1].kind \in {"Identifier", "String"} =>
           out.ok /\ out.value = Str(lex.tokens[1].value.s)

\* C19: parse builds an implicit object from successive key/value pairs if
\* and only if the first token is an Identifier or String and the token
\* after it is not end-of-input; otherwise it parses exactly one value and
\* requires end-of-input after it. A single identifier or string token
\* yields that String, and the text name: "my-app" version: 1 enabled: true
\* yields {name: "my-app", version: 1, enabled: true}.
C19_RootRule ==
    pc = "parsed" /\ written.kind = "root" /\ callOptions = DefaultOptions =>
        /\ RootRule(parsed, tokenize(callText, DefaultOptions),
                    parse(Braced(callText), DefaultOptions),
                    parse(Bracketed(callText), DefaultOptions))
        /\ callText = ExampleText => parsed.ok /\ StructEq(parsed.value, ExampleValue)

C19_Witness ==
    /\ pc = "parsed"
    /\ written.kind = "root"
    /\ callOptions = DefaultOptions
    /\ callText = ExampleText
    /\ parsed.ok
    /\ Len(parsed.value.keys) = 3

\* the document with the other choice written at the place of the separator
Toggled(doc) == doc.before \o doc.fresh \o doc.after

\* C20 (as claimed): the colon and the comma are optional in every object,
\* braced or implicit root, and in every array: for an accepted document,
\* inserting or deleting a single ',' between two adjacent pairs or elements,
\* or a ':' between a key and its value, gives a document that parse accepts
\* with the same Value.
C20_SeparatorsOptional ==
    pc = "parsed" /\ written.kind \in {"comma", "colon"} /\ parsed.ok =>
        parse(Toggled(written), callOptions) = parsed

----------------------------------------------------------------------------
(* Quoted strings *)

\* the letters that may follow a backslash, besides the active quote and u
EscapeLetters == {Ch.backslash, Ch.slash, Ch.b, Ch.f, Ch.n, Ch.r, Ch.t}

FourHexDigits(t, i) == \A k \in 0..3 : CharAt(t, i + k) # -1 /\ IsHexDigit(CharAt(t, i + k))

\* what a text that opens a string with the quote q is, read from index i
\* on: "closed" by the matching quote at its end, "closedEarly", cut by a
\* backslash that nothing allowed follows ("escape"), by a raw control
\* character ("control"), or by the end of the text ("unclosed")
RECURSIVE StringShape(_, _, _)
StringShape(t, i, q) ==
    IF i > Len(t) THEN "unclosed"
    ELSE IF t[i] = q THEN (IF i = Len(t) THEN "closed" ELSE "closedEarly")
    ELSE IF t[i] = Ch.backslash
        THEN IF CharAt(t, i + 1) \in EscapeLetters \cup {q} THEN StringShape(t, i + 2, q)
             ELSE IF CharAt(t, i + 1) = Ch.u /\ FourHexDigits(t, i + 2)
                 THEN StringShape(t, i + 6, q)
             ELSE "escape"
    ELSE IF t[i] \in 0..31 THEN "control"
    ELSE StringShape(t, i + 1, q)

StringRule(r, shape) ==
    /\ shape = "closed" => r.ok /\ Len(r.tokens) = 2 /\ r.tokens[1].kind = "String"
    /\ shape = "escape" => ~r.ok
    /\ shape = "control" => ~r.ok /\ r.message = "Control character in string"
    /\ shape = "unclosed" => ~r.ok /\ r.message = "Unclosed string"

\* C21: inside a quoted string tokenize accepts a backslash only when it is
\* followed by the active quote, \, /, b, f, n, r, t, or u and exactly four
\* hex digits; a backslash followed by anything else (the other quote
\* included) is a lex error; a raw character in U+0000..U+001F is rejected
\* with 'Control character in string'; a string with no matching closing
\* quote is rejected with 'Unclosed string'.
C21_StringEscapes ==
    pc = "tokenized" /\ written.kind = "string" /\ WithinLength =>
        StringRule(lexResult, StringShape(callText, 2, callText[1]))

\* a backslash before the quote that is not the active one
C21_Witness ==
    /\ pc = "tokenized"
    /\ written.kind = "string"
    /\ callText = <<Ch.dquote, Ch.backslash, Ch.squote, Ch.dquote>>
    /\ ~lexResult.ok
    /\ lexResult.message = "Invalid escape sequence"

----------------------------------------------------------------------------
(* Quoting by stringify *)

\* [A-Za-z_][A-Za-z0-9_-]*
IdentifierShape(t) ==
    /\ t # <<>>
    /\ IsLetter(t[1]) \/ t[1] = Ch.underscore
    /\ \A i \in 2..Len(t) :
           IsLetter(t[i]) \/ IsDigit(t[i]) \/ t[i] \in {Ch.underscore, Ch.minus}

\* true, false or null in any letter case
IsKeyword(t) == [i \in DOMAIN t |-> ToLower(t[i])] \in {KwTrue, KwFalse, KwNull}

Bare(t) == IdentifierShape(t) /\ ~IsKeyword(t)

InDoubleQuotes(t) == Len(t) >= 2 /\ t[1] = Ch.dquote /\ t[Len(t)] = Ch.dquote

\* the compact text of an object with the one key written as k, value null
OneKeyText(k) == <<Ch.lbrace, Ch.space>> \o k \o <<Ch.colon, Ch.space>> \o KwNull \o
                 <<Ch.space, Ch.rbrace>>

IsOneKeyObject(v) == v.k = "obj" /\ Len(v.keys) = 1 /\ v.items[1] = Null

\* the text between the brace and the colon of such an object's text
WrittenKey(text) == SubSeq(text, 3, Len(text) - 8)

\* C22 (as claimed): stringify emits a string value or an object key
\* unquoted if and only if it is non-empty, matches
\* [A-Za-z_][A-Za-z0-9_-]* and is not true/false/null in any letter case;
\* every other string is emitted double-quoted.
C22_QuotingRule ==
    pc = "stringified" /\ callOptions.indent = <<>> =>
        /\ callValue.k = "str" =>
               IF Bare(callValue.s) THEN callText = callValue.s
               ELSE InDoubleQuotes(callText)
        /\ IsOneKeyObject(callValue) =>
               IF Bare(callValue.keys[1]) THEN callText = OneKeyText(callValue.keys[1])
               ELSE /\ callText = OneKeyText(WrittenKey(callText))
                    /\ InDoubleQuotes(WrittenKey(callText))

\* the characters the escapes of a literal stand for, read from index i on
\* (-1 for a backslash followed by anything else)
Unescaped(c) ==
    IF c = Ch.b THEN Ch.bs ELSE IF c = Ch.f THEN Ch.ff ELSE IF c = Ch.n THEN Ch.lf
    ELSE IF c = Ch.r THEN Ch.cr ELSE IF c = Ch.t THEN Ch.tab
    ELSE IF c \in {Ch.backslash, Ch.dquote} THEN c ELSE -1

RECURSIVE EscapedChars(_, _)
EscapedChars(t, i) ==
    IF i > Len(t) THEN {}
    ELSE IF t[i] = Ch.backslash
        THEN {Unescaped(CharAt(t, i + 1))} \cup EscapedChars(t, i + 2)
    ELSE EscapedChars(t, i + 1)

\* C23 (as claimed): for every string s that stringify emits double-quoted,
\* the literal holds escapes only for the characters backslash, double
\* quote, backspace, form feed, newline, carriage return and tab that occur
\* in s, and tokenize decodes the literal back to exactly s.
C23_QuotedRoundTrip ==
    pc = "tokenized" /\ written.kind = "none" /\ callValue.k = "str"
        /\ InDoubleQuotes(callText) =>
            /\ EscapedChars(callText, 1) \subseteq Range(callValue.s)
            /\ lexResult.ok
            /\ Len(lexResult.tokens) = 2
            /\ lexResult.tokens[1].kind = "String"
            /\ lexResult.tokens[1].value = callValue

----------------------------------------------------------------------------
(* Comments and token positions *)

\* the index of the last character of the comment that a text opens with,
\* read from index i on at the nesting depth given; 0 when it is not closed
RECURSIVE CommentEnd(_, _, _)
CommentEnd(t, i, depth) ==
    IF i > Len(t) THEN 0
    ELSE IF t[i] = Ch.star /\ CharAt(t, i + 1) = Ch.slash
        THEN IF depth = 1 THEN i + 1 ELSE CommentEnd(t, i + 2, depth - 1)
    ELSE IF t[i] = Ch.slash /\ CharAt(t, i + 1) = Ch.star
        THEN CommentEnd(t, i + 2, depth + 1)
    ELSE CommentEnd(t, i + 1, depth)

\* the text with its first n characters replaced by spaces, line feeds kept
Blanked(t, n) == [i \in DOMAIN t |-> IF i <= n /\ t[i] # Ch.lf THEN Ch.space ELSE t[i]]

\* a comment that is not closed is an error; a closed one reads as the
\* blanks and line feeds in its place read
CommentRule(r, text, end, opts) ==
    IF end = 0 THEN ~r.ok /\ r.message = "Unclosed multi-line comment"
    ELSE r = tokenize(Blanked(text, end), opts)

\* C24: multi-line comments nest in tokenize: a comment ends only when
\* every /* opened inside it has been matched by a */; text after a properly
\* nested comment is tokenized normally; input ending while the depth is
\* still positive fails with 'Unclosed multi-line comment'; every LF inside
\* a comment advances the line counter, so tokens after a comment carry the
\* correct line.
C24_NestedComments ==
    pc = "tokenized" /\ written.kind = "comment" /\ WithinLength =>
        CommentRule(lexResult, callText, CommentEnd(callText, 3, 1), callOptions)

\* /* a /* b<LF> */ c */ x : the identifier is on line 2, column 10
C24_Witness ==
    /\ pc = "tokenized"
    /\ written.kind = "comment"
    /\ Len(callText) = 20
    /\ CommentEnd(callText, 3, 1) = 18
    /\ lexResult.ok
    /\ lexResult.tokens[1].kind = "Identifier"
    /\ lexResult.tokens[1].start = pos(2, 10, 19)


----------------------------------------------------------------------------
(* The decoder pool *)

\* the calls of pool.decode that were given an id, and how many of them
\* came before the i-th call
WasAccepted(i) == pool.calls[i].id >= 0

AcceptedBefore(i) == Cardinality({j \in 1..(i - 1) : WasAccepted(j)})

\* C25: with poolSize n the k-th accepted call of pool.decode, counted from
\* 0, posts its job to worker k mod n; a call rejected because the pool is
\* destroyed posts nothing and does not advance the rotation.
C25_RoundRobin ==
    pc = "pool" =>
        /\ \A i \in 1..Len(pool.calls) :
              LET k == AcceptedBefore(i)
              IN  IF WasAccepted(i)
                  THEN /\ pool.calls[i].worker = (k % pool.poolSize) + 1
                       /\ Len(pool.posted) > k
                       /\ pool.posted[k + 1].worker = (k % pool.poolSize) + 1
                       /\ pool.posted[k + 1].id = pool.calls[i].id
                  ELSE /\ pool.destroyed
                       /\ pool.calls[i].state = "rejected"
                       /\ pool.calls[i].message = "Decoder pool has been destroyed"
        /\ Len(pool.posted) = AcceptedBefore(Len(pool.calls) + 1)
        /\ pool.nextIndex = Len(pool.posted)

\* three calls of a pool of two come back to the first worker, and a call
\* after destroy() is turned away
C25_Witness ==
    /\ pc = "pool"
    /\ pool.poolSize = 2
    /\ Len(pool.calls) = 4
    /\ pool.calls[3].worker = 1
    /\ pool.calls[3].id = 2
    /\ pool.calls[4].id = -1
    /\ Len(pool.posted) = 3


----------------------------------------------------------------------------
(* Recursion of encode *)

\* C26: during encode(v, {maxDepth: d}) no recursive traversal of v, the
\* key-collection pass included, goes more than d + 1 levels below the root.
C26_EncodeRecursionBounded ==
    pc \in {"encoded", "encodeFailed"} =>
        /\ encodeValue_deepest(callValue, 0, callOptions.maxDepth).deepest
               <= callOptions.maxDepth + 1
        /\ collectKeys_deepest(callValue, 0) <= callOptions.maxDepth + 1


\* the character a one-character token stands for
PunctuationOf == [LBrace |-> Ch.lbrace, RBrace |-> Ch.rbrace, LBracket |-> Ch.lbracket,
                  RBracket |-> Ch.rbracket, Colon |-> Ch.colon, Comma |-> Ch.comma]

IsPunctuation(token) == token.kind \in DOMAIN PunctuationOf

\* start and end are positions of the text, the token is not empty, and a
\* one-character token starts at its character
WellPlaced(token, text) ==
    /\ token.start.offset < token.end.offset
    /\ token.end.offset <= Len(text)
    /\ token.start = PositionAt(text, token.start.offset)
    /\ token.end = PositionAt(text, token.end.offset)
    /\ IsPunctuation(token) =>
          /\ text[token.start.offset + 1] = PunctuationOf[token.kind]
          /\ token.end.offset = token.start.offset + 1

\* parse has failed on the depth limit for a text that begins with
\* maxDepth + 2 opening brackets: the bracket that goes past the limit is the
\* last of them, at offset maxDepth + 1
DepthErrorAtBracket ==
    /\ ~parsed.ok
    /\ parsed.message = "Maximum nesting depth exceeded"
    /\ Len(callText) >= callOptions.maxDepth + 2
    /\ \A i \in 1..(callOptions.maxDepth + 2) : callText[i] = Ch.lbracket

\* C27: every token of tokenize but Eof has start at its first character and
\* end just past its last one, so start.offset < end.offset, the tokens
\* { } [ ] : and , included; a depth error of parse raised at a [ reports the
\* position of that character.
C27_TokenPositions ==
    /\ pc = "tokenized" /\ lexResult.ok =>
          \A i \in 1..(Len(lexResult.tokens) - 1) :
              WellPlaced(lexResult.tokens[i], callText)
    /\ pc = "parsed" /\ DepthErrorAtBracket =>
          parsed.position = PositionAt(callText, callOptions.maxDepth + 1)


----------------------------------------------------------------------------
(* parseFast and parse *)

\* both fail, or both succeed with the same Value
SameOutcome(fast, slow) ==
    /\ fast.ok = slow.ok
    /\ fast.ok => fast.value = slow.value

\* C28: for every text and every option set parseFast and parse either both
\* fail or both succeed with structurally equal Values.
C28_ParseFastSameGrammar ==
    pc = "parsedFast" => SameOutcome(parsed, parse(callText, callOptions))


----------------------------------------------------------------------------
(* The read offset of decode *)

\* offset only grows: each read begins where the one before it ended
ReadsInOrder(reads) ==
    /\ reads # <<>> => reads[1].at = 0
    /\ \A i \in 1..(Len(reads) - 1) : reads[i + 1].at = reads[i].at + reads[i].n

\* every byte read lies below the buffer length
ReadsInBuffer(reads, length) ==
    \A i \in DOMAIN reads : reads[i].at >= 0 /\ reads[i].at + reads[i].n <= length

\* C29: throughout decode the read offset starts at 0, never decreases and
\* never exceeds the buffer length, every byte read lies at an index below
\* the buffer length, and on success the offset equals the buffer length.
C29_ReadOffsetInBounds ==
    pc = "decoded" =>
        /\ ReadsInOrder(decodeTrace(callBuffer, callOptions).reads)
        /\ ReadsInBuffer(decodeTrace(callBuffer, callOptions).reads, Len(callBuffer))
        /\ decodeTrace(callBuffer, callOptions).offset <= Len(callBuffer)
        /\ decodeTrace(callBuffer, callOptions).ok = decoded.ok
        /\ decoded.offset = decodeTrace(callBuffer, callOptions).offset
        /\ decoded.ok => decoded.offset = Len(callBuffer)

\* a buffer decoded with success in eight reads or more, the last of them
\* ending at the end of the buffer
C29_Witness ==
    /\ pc = "decoded"
    /\ decoded.ok
    /\ Len(decodeTrace(callBuffer, callOptions).reads) >= 8
    /\ decoded.offset = Len(callBuffer)


----------------------------------------------------------------------------
(* Settlement of the promises of a decoder pool *)

\* the i-th call of pool.decode has been made
Called(i) == pc = "pool" /\ Len(pool.calls) >= i

\* and its promise is resolved or rejected
Settled(i) == Called(i) /\ pool.calls[i].state # "pending"

\* no promise is settled twice
SettledOnce == \A i \in 1..Len(pool.calls) : pool.calls[i].settles <= 1

\* C30: every promise returned by pool.decode is eventually settled, and
\* settled once: also the promise of a job that is pending when destroy() is
\* called or when its worker ends.
C30_EveryPromiseSettled ==
    /\ [](pc = "pool" => SettledOnce)
    /\ \A i \in 1..MaxCalls : Called(i) ~> Settled(i)

============================================================================
